---- MODULE Spec2Model ----
(***************************************************************************)
(* Chart-data normalisation and insight engine of the dashboard            *)
(* (src/src/components/ChartRenderer.jsx): safeNumber, normalizeAggregated,*)
(* computeInsightsFromNorm and the value mapping of renderPlotly.          *)
(*                                                                         *)
(* JavaScript values are records of one uniform shape (tag t plus one      *)
(* payload field per type), strings are sequences of one-character         *)
(* strings, so that String(v), trim, replace(/,/g,"") and Number(s) are    *)
(* computed character by character.  A number is an exact decimal          *)
(* m / 10^d, kept normalised (d = 0 or m not divisible by 10), so that     *)
(* structural equality is numeric equality.                                *)
(***************************************************************************)
EXTENDS Integers, Sequences, FiniteSets, TLC

VARIABLES
    pc,          \* position of the harness: which function is applied next
    aggregated,  \* argument `aggregated` of normalizeAggregated
    spec,        \* argument `spec` of normalizeAggregated / computeInsightsFromNorm
    norm,        \* result of normalizeAggregated
    insights,    \* result of computeInsightsFromNorm
    plotted,     \* `values` array built by renderPlotly for kind rows
    axes,        \* the two axis fields renderPlotly resolves for kind raw_table
    cIn,         \* argument of safeNumber
    cOut,        \* result of safeNumber
    chat,        \* one call of chatApi.sendQuestion
    auth,        \* localStorage as the login/signup/logout handlers use it
    store,       \* the dashboard store and its requests in flight
    page         \* the History page: dataset list and deletes in flight

\* the variables outside the chart renderer
outside == <<chat, auth, store, page>>

vars == <<pc, aggregated, spec, norm, insights, plotted, axes, cIn, cOut, chat, auth, store, page>>

----------------------------------------------------------------------------
(* Bounds of the model *)

MaxStrLen == 3
MaxRows == 4

----------------------------------------------------------------------------
(* JavaScript values *)

JsVal(tag, m, dd, cs, ks, xs) ==
    [t |-> tag, n |-> m, d |-> dd, s |-> cs, k |-> ks, a |-> xs]

Undefined == JsVal("undefined", 0, 0, <<>>, <<>>, <<>>)
Null      == JsVal("null", 0, 0, <<>>, <<>>, <<>>)
NaN       == JsVal("nan", 0, 0, <<>>, <<>>, <<>>)
Bool(b)   == JsVal("bool", IF b THEN 1 ELSE 0, 0, <<>>, <<>>, <<>>)
Str(cs)   == JsVal("str", 0, 0, cs, <<>>, <<>>)
Arr(xs)   == JsVal("arr", 0, 0, <<>>, <<>>, xs)
\* an object: its own enumerable keys in insertion order, and their values
Obj(ks, xs) == JsVal("obj", 0, 0, <<>>, ks, xs)

RECURSIVE Pow10(_)
Pow10(e) == IF e = 0 THEN 1 ELSE 10 * Pow10(e - 1)

\* the number m / 10^dd, normalised
RECURSIVE Num(_, _)
Num(m, dd) ==
    IF dd > 0 /\ m % 10 = 0 THEN Num(m \div 10, dd - 1)
    ELSE JsVal("num", m, dd, <<>>, <<>>, <<>>)

Whole(m) == Num(m, 0)

IsNullish(v) == v.t \in {"undefined", "null"}
IsArray(v) == v.t = "arr"
\* typeof v === "object" (true of null, arrays and objects)
TypeofObject(v) == v.t \in {"null", "arr", "obj"}
TypeofNumber(v) == v.t \in {"num", "nan"}

\* ToBoolean
Truthy(v) ==
    CASE v.t \in {"undefined", "null", "nan"} -> FALSE
      [] v.t = "bool" -> v.n = 1
      [] v.t = "num" -> v.n # 0
      [] v.t = "str" -> v.s # <<>>
      [] OTHER -> TRUE

\* a ?? b
Coalesce(x, y) == IF IsNullish(x) THEN y ELSE x
\* a || b
OrElse(x, y) == IF Truthy(x) THEN x ELSE y

----------------------------------------------------------------------------
(* Strings *)

Digits == {"0", "1", "2", "3", "4", "5", "6", "7", "8", "9"}

DigitVal(c) ==
    CASE c = "0" -> 0 [] c = "1" -> 1 [] c = "2" -> 2 [] c = "3" -> 3
      [] c = "4" -> 4 [] c = "5" -> 5 [] c = "6" -> 6 [] c = "7" -> 7
      [] c = "8" -> 8 [] c = "9" -> 9

DigitChar(i) ==
    CASE i = 0 -> "0" [] i = 1 -> "1" [] i = 2 -> "2" [] i = 3 -> "3"
      [] i = 4 -> "4" [] i = 5 -> "5" [] i = 6 -> "6" [] i = 7 -> "7"
      [] i = 8 -> "8" [] i = 9 -> "9"

RECURSIVE NatToChars(_)
NatToChars(i) ==
    IF i < 10 THEN <<DigitChar(i)>>
    ELSE Append(NatToChars(i \div 10), DigitChar(i % 10))

RECURSIVE CharsToNat(_)
CharsToNat(cs) ==
    IF cs = <<>> THEN 0
    ELSE 10 * CharsToNat(SubSeq(cs, 1, Len(cs) - 1)) + DigitVal(cs[Len(cs)])

\* String.prototype.replace(/,/g, "")
RemoveCommas(cs) == SelectSeq(cs, LAMBDA c : c # ",")

RECURSIVE TrimLeft(_)
TrimLeft(cs) ==
    IF cs # <<>> /\ Head(cs) = " " THEN TrimLeft(Tail(cs)) ELSE cs

RECURSIVE TrimRight(_)
TrimRight(cs) ==
    IF cs # <<>> /\ cs[Len(cs)] = " "
    THEN TrimRight(SubSeq(cs, 1, Len(cs) - 1)) ELSE cs

\* String.prototype.trim
Trim(cs) == TrimRight(TrimLeft(cs))

\* index of the first "." of cs, or 0
RECURSIVE DotAt(_, _)
DotAt(cs, i) ==
    IF i > Len(cs) THEN 0 ELSE IF cs[i] = "." THEN i ELSE DotAt(cs, i + 1)

\* an unsigned StrDecimalLiteral without exponent: digits, at most one ".",
\* at least one digit
UnsignedDecimal(cs) ==
    LET dot == DotAt(cs, 1)
        ip  == IF dot = 0 THEN cs ELSE SubSeq(cs, 1, dot - 1)
        fp  == IF dot = 0 THEN <<>> ELSE SubSeq(cs, dot + 1, Len(cs))
        ok  == /\ \A i \in 1..Len(ip) : ip[i] \in Digits
               /\ \A i \in 1..Len(fp) : fp[i] \in Digits
               /\ Len(ip) + Len(fp) > 0
    IN  IF ok THEN Num(CharsToNat(ip \o fp), Len(fp)) ELSE NaN

Negate(v) == IF v.t = "num" THEN Num(0 - v.n, v.d) ELSE v

\* Number(s) for a string: StringToNumber.  Surrounding white space is
\* stripped, the empty string is 0, a signed decimal literal is its value
\* and anything else is NaN.  (Exponents, Infinity and 0x/0o/0b literals
\* are not written with the characters the model's strings are made of.)
StringToNumber(cs) ==
    LET tr == Trim(cs)
    IN  IF tr = <<>> THEN Whole(0)
        ELSE IF Head(tr) = "-" THEN Negate(UnsignedDecimal(Tail(tr)))
        ELSE IF Head(tr) = "+" THEN UnsignedDecimal(Tail(tr))
        ELSE UnsignedDecimal(tr)

\* Number.prototype.toString for the decimals of the model
NumToChars(v) ==
    LET neg == v.n < 0
        mag == IF neg THEN 0 - v.n ELSE v.n
        ip  == NatToChars(mag \div Pow10(v.d))
        fr  == NatToChars(mag % Pow10(v.d))
        pad == [i \in 1..(v.d - Len(fr)) |-> "0"]
    IN  (IF neg THEN <<"-">> ELSE <<>>) \o ip
        \o (IF v.d > 0 THEN <<".">> \o pad \o fr ELSE <<>>)

RECURSIVE ToStr(_)
RECURSIVE JoinComma(_)
\* Array.prototype.join(","): null and undefined elements are empty
JoinComma(xs) ==
    IF xs = <<>> THEN <<>>
    ELSE LET h == IF IsNullish(Head(xs)) THEN <<>> ELSE ToStr(Head(xs))
         IN  IF Len(xs) = 1 THEN h ELSE h \o <<",">> \o JoinComma(Tail(xs))

\* String(v)
ToStr(v) ==
    CASE v.t = "undefined" -> <<"u","n","d","e","f","i","n","e","d">>
      [] v.t = "null" -> <<"n","u","l","l">>
      [] v.t = "nan" -> <<"N","a","N">>
      [] v.t = "bool" -> IF v.n = 1 THEN <<"t","r","u","e">>
                         ELSE <<"f","a","l","s","e">>
      [] v.t = "num" -> NumToChars(v)
      [] v.t = "str" -> v.s
      [] v.t = "arr" -> JoinComma(v.a)
      [] OTHER -> <<"[","o","b","j","e","c","t"," ","O","b","j","e","c","t","]">>

----------------------------------------------------------------------------
(* safeNumber *)

safeNumber(v) ==
    IF IsNullish(v) THEN Null
    ELSE IF TypeofNumber(v) THEN v
    ELSE LET s == Trim(RemoveCommas(ToStr(v)))
             n == StringToNumber(s)
         IN  IF n.t = "nan" THEN Null ELSE n

----------------------------------------------------------------------------
(* Objects and property access *)

kLabel      == <<"l","a","b","e","l">>
kName       == <<"n","a","m","e">>
kX          == <<"x">>
kY          == <<"y">>
kValue      == <<"v","a","l","u","e">>
kLabels     == <<"l","a","b","e","l","s">>
kValues     == <<"v","a","l","u","e","s">>
kSeries     == <<"s","e","r","i","e","s">>
kRawTable   == <<"r","a","w","_","t","a","b","l","e">>
kChartSpec  == <<"c","h","a","r","t","_","s","p","e","c">>
kAggregated == <<"a","g","g","r","e","g","a","t","e","d">>
kData       == <<"d","a","t","a">>
kXKey       == <<"x","K","e","y">>
kYKey       == <<"y","K","e","y">>
kLabelKey   == <<"l","a","b","e","l","K","e","y">>
kValueKey   == <<"v","a","l","u","e","K","e","y">>
kType       == <<"t","y","p","e">>

\* xs[i] of a JavaScript array, i counted from 1 here: undefined past the end
At(xs, i) == IF i \in 1..Len(xs) THEN xs[i] ELSE Undefined

\* Object.keys(v): own enumerable keys, in insertion order (index keys for
\* an array, none for a number or a boolean)
OwnKeys(v) ==
    CASE v.t = "obj" -> v.k
      [] v.t = "arr" -> [i \in 1..Len(v.a) |-> NatToChars(i - 1)]
      [] OTHER -> <<>>

KeyIndex(ks, key) ==
    IF \E i \in 1..Len(ks) : ks[i] = key
    THEN CHOOSE i \in 1..Len(ks) : ks[i] = key /\ \A j \in 1..(i - 1) : ks[j] # key
    ELSE 0

\* o[key] / o.key for a value that is not null or undefined (for those the
\* access throws, which the callers below state where the code can reach it)
Get(o, key) ==
    LET i == KeyIndex(OwnKeys(o), key)
    IN  IF i = 0 THEN Undefined ELSE o.a[i]

HasKey(o, key) == KeyIndex(OwnKeys(o), key) # 0

\* o[key] = v on an object: an existing key keeps its place
SetProp(o, key, v) ==
    LET i == KeyIndex(o.k, key)
    IN  IF i = 0 THEN Obj(Append(o.k, key), Append(o.a, v))
        ELSE Obj(o.k, [o.a EXCEPT ![i] = v])

\* { ...base, ...r }: the own enumerable properties of r assigned in order
RECURSIVE AssignAll(_, _, _)
AssignAll(base, ks, xs) ==
    IF ks = <<>> THEN base
    ELSE AssignAll(SetProp(base, Head(ks), Head(xs)), Tail(ks), Tail(xs))

Spread(base, r) == AssignAll(base, OwnKeys(r), IF r.t \in {"obj", "arr"} THEN r.a ELSE <<>>)

\* ToPropertyKey of a value used as a computed key
PropKey(v) == ToStr(v)

----------------------------------------------------------------------------
(* normalizeAggregated *)

NormResult(kd, rs, names, tbl, rw) ==
    [kind |-> kd, rows |-> rs, seriesNames |-> names, table |-> tbl, raw |-> rw]

NormEmpty       == NormResult("empty", <<>>, <<>>, <<>>, Undefined)
NormRows(rs)    == NormResult("rows", rs, <<>>, <<>>, Undefined)
NormTable(rs, names) == NormResult("table", rs, names, <<>>, Undefined)
\* variant: the rows that are not objects are dropped, as in the array branch
NormRawTableObjectsOnly(t) ==
    NormResult("raw_table", <<>>, <<>>,
               SelectSeq(t, LAMBDA r : Truthy(r) /\ TypeofObject(r)), Undefined)
NormRawTable(t) == NormResult("raw_table", <<>>, <<>>, t, Undefined)
NormUnknown(rw) == NormResult("unknown", <<>>, <<>>, <<>>, rw)
\* the call did not return: a TypeError was thrown
NormThrown      == NormResult("TypeError", <<>>, <<>>, <<>>, Undefined)

\* lines 57-65: the array branch
rowFromElement(r) ==
    LET label == Coalesce(Get(r, kLabel), Coalesce(Get(r, kName), Coalesce(Get(r, kX), Null)))
        value == Coalesce(Get(r, kValue), Coalesce(Get(r, kY), Null))
    IN  SetProp(SetProp(Spread(Obj(<<>>, <<>>), r), kLabel, label), kValue, value)

\* variant: rows without a value are filtered out as well
rowsFromArrayDroppingEmpty(xs) ==
    LET kept == SelectSeq(xs, LAMBDA r : Truthy(r) /\ TypeofObject(r)
                                         /\ ~IsNullish(Coalesce(Get(r, kValue), Get(r, kY))))
    IN  NormRows([i \in 1..Len(kept) |-> rowFromElement(kept[i])])

rowsFromArray(xs) ==
    LET kept == SelectSeq(xs, LAMBDA r : Truthy(r) /\ TypeofObject(r))
    IN  NormRows([i \in 1..Len(kept) |-> rowFromElement(kept[i])])

\* lines 72-76
rowsFromLabelsValues(labels, values) ==
    NormRows([i \in 1..Len(labels) |->
                Obj(<<kLabel, kValue>>, <<labels[i], safeNumber(At(values, i))>>)])

\* lines 80-83: one normalised series
seriesEntry(s, i) ==
    [name   |-> Coalesce(Get(s, kName), Str(<<"s","e","r","i","e","s">> \o NatToChars(i))),
     values |-> IF IsArray(Get(s, kValues)) THEN Get(s, kValues).a ELSE <<>>]

\* lines 85-89: the row of label lbl at position i
RECURSIVE tableRow(_, _, _)
tableRow(row, series, i) ==
    IF series = <<>> THEN row
    ELSE tableRow(SetProp(row, PropKey(Head(series).name),
                          safeNumber(At(Head(series).values, i))),
                  Tail(series), i)

\* lines 79-92
tableFromLabelsSeries(labels, rawSeries) ==
    IF \E i \in 1..Len(rawSeries) : IsNullish(rawSeries[i])
    THEN NormThrown
    ELSE LET series == [i \in 1..Len(rawSeries) |-> seriesEntry(rawSeries[i], i)]
         IN  NormTable([i \in 1..Len(labels) |->
                          tableRow(Obj(<<kLabel>>, <<labels[i]>>), series, i)],
                       [i \in 1..Len(series) |-> series[i].name])

\* lines 100-104
rowsFromXY(xs, ys) ==
    NormRows([i \in 1..Len(xs) |->
                Obj(<<kLabel, kValue>>, <<xs[i], safeNumber(At(ys, i))>>)])

\* lines 115-119 and 125-129: { label: r[xKey], value: safeNumber(r[yKey]), ...r }
rowFromData(r, xKey, yKey) ==
    Spread(Obj(<<kLabel, kValue>>,
               <<Get(r, PropKey(xKey)), safeNumber(Get(r, PropKey(yKey)))>>), r)

rowsFromData(data, xKey, yKey) ==
    IF \E i \in 1..Len(data) : IsNullish(data[i])
    THEN NormThrown
    ELSE NormRows([i \in 1..Len(data) |-> rowFromData(data[i], xKey, yKey)])

\* lines 111-133: the inline spec.data branch; NoMatch when it does not return
NoMatch == NormResult("nomatch", <<>>, <<>>, <<>>, Undefined)

\* variant: inline data is not used for a pie chart
fromSpecDataUnlessPie(sp) ==
    IF ~(Truthy(sp) /\ IsArray(Get(sp, kData))) \/ Get(sp, kType) = Str(<<"p","i","e">>)
    THEN NoMatch
    ELSE LET data == Get(sp, kData).a
             xKey == Coalesce(Get(sp, kXKey), Coalesce(Get(sp, kX), Coalesce(Get(sp, kLabelKey), Null)))
             yKey == Coalesce(Get(sp, kYKey), Coalesce(Get(sp, kY), Coalesce(Get(sp, kValueKey), Null)))
             keys == OwnKeys(OrElse(At(data, 1), Obj(<<>>, <<>>)))
         IN  IF Truthy(xKey) /\ Truthy(yKey) THEN rowsFromData(data, xKey, yKey)
             ELSE IF Len(data) > 0 /\ Len(keys) >= 2
                  THEN rowsFromData(data, Str(keys[1]), Str(keys[2]))
             ELSE NoMatch

fromSpecData(sp) ==
    IF ~(Truthy(sp) /\ IsArray(Get(sp, kData))) THEN NoMatch
    ELSE LET data == Get(sp, kData).a
             xKey == Coalesce(Get(sp, kXKey), Coalesce(Get(sp, kX), Coalesce(Get(sp, kLabelKey), Null)))
             yKey == Coalesce(Get(sp, kYKey), Coalesce(Get(sp, kY), Coalesce(Get(sp, kValueKey), Null)))
             keys == OwnKeys(OrElse(At(data, 1), Obj(<<>>, <<>>)))
         IN  IF Truthy(xKey) /\ Truthy(yKey) THEN rowsFromData(data, xKey, yKey)
             ELSE IF Len(data) > 0 /\ Len(keys) >= 2
                  THEN rowsFromData(data, Str(keys[1]), Str(keys[2]))
             ELSE NoMatch

\* lines 51-53: the payload the dispatch works on
effectivePayload(agg, sp) ==
    IF ~Truthy(agg) /\ Truthy(sp)
    THEN OrElse(Get(sp, kAggregated), OrElse(Get(sp, kData), sp))
    ELSE agg

\* line 68, with the Array.isArray tests of lines 71 and 79 (an array is
\* truthy): the labels branch returns
hasLabelsShape(a) ==
    /\ Truthy(Get(a, kLabels))
    /\ (Truthy(Get(a, kValues)) \/ Truthy(Get(a, kSeries)))
    /\ (IsArray(Get(a, kValues)) \/ IsArray(Get(a, kSeries)))

\* line 99
hasParallelXY(a) == IsArray(Get(a, kX)) /\ IsArray(Get(a, kY))

\* variant: the raw_table test placed after the x/y test
hasRawTableAfterXY(a) == IsArray(Get(a, kRawTable)) /\ ~hasParallelXY(a)

\* line 95
hasRawTable(a) == IsArray(Get(a, kRawTable))

\* line 107
hasWrapper(a) == Truthy(Get(a, kChartSpec)) /\ Truthy(Get(a, kAggregated))

\* lines 69-92
fromLabels(a) ==
    IF IsArray(Get(a, kValues))
    THEN rowsFromLabelsValues(IF IsArray(Get(a, kLabels)) THEN Get(a, kLabels).a ELSE <<>>,
                              Get(a, kValues).a)
    ELSE tableFromLabelsSeries(IF IsArray(Get(a, kLabels)) THEN Get(a, kLabels).a ELSE <<>>,
                               Get(a, kSeries).a)

RECURSIVE normalizeAggregated(_, _)
normalizeAggregated(agg, sp) ==
    LET a == effectivePayload(agg, sp)
    IN  IF ~Truthy(a) THEN NormEmpty
        ELSE IF IsArray(a) THEN rowsFromArray(a.a)
        ELSE IF hasLabelsShape(a) THEN fromLabels(a)
        ELSE IF hasRawTable(a) THEN NormRawTable(Get(a, kRawTable).a)
        ELSE IF hasParallelXY(a) THEN rowsFromXY(Get(a, kX).a, Get(a, kY).a)
        ELSE IF hasWrapper(a)
        THEN normalizeAggregated(Get(a, kAggregated), Get(a, kChartSpec))
        ELSE IF fromSpecData(sp) # NoMatch THEN fromSpecData(sp)
        ELSE NormUnknown(a)

----------------------------------------------------------------------------
(* computeInsightsFromNorm *)
(* The valid values are decimals m / 10^d; they are brought to the common  *)
(* scale 10^E (E the largest d among them) and the statistics are computed *)
(* exactly on the scaled integers v[i]:                                    *)
(*   mean     = sum / n                                   (times 10^-E)    *)
(*   variance = devSq / (n^2 * (n - 1)),  devSq = SUM (n*v[i] - sum)^2     *)
(*   slope    = slopeNum / slopeDen                                        *)
(* std = sqrt(variance) is zero exactly when devSq is zero, and the        *)
(* comparisons against mean +- 0.7*std and 0.01*mean are decided on the    *)
(* integers, without rounding.                                             *)

RECURSIVE SeqSum(_)
SeqSum(xs) == IF xs = <<>> THEN 0 ELSE Head(xs) + SeqSum(Tail(xs))

RECURSIVE SeqMax(_)
SeqMax(xs) ==
    IF Len(xs) = 1 THEN xs[1]
    ELSE LET m == SeqMax(Tail(xs)) IN IF Head(xs) >= m THEN Head(xs) ELSE m

RECURSIVE SeqMin(_)
SeqMin(xs) ==
    IF Len(xs) = 1 THEN xs[1]
    ELSE LET m == SeqMin(Tail(xs)) IN IF Head(xs) <= m THEN Head(xs) ELSE m

\* variant: the extremum is looked up at its last occurrence
LastIndexOf(xs, v) ==
    IF \E i \in 1..Len(xs) : xs[i] = v
    THEN CHOOSE i \in 1..Len(xs) : xs[i] = v /\ \A j \in (i + 1)..Len(xs) : xs[j] # v
    ELSE 0

\* Array.prototype.indexOf with strict equality, counted from 1; 0 for -1
IndexOf(xs, v) ==
    IF \E i \in 1..Len(xs) : xs[i] = v
    THEN CHOOSE i \in 1..Len(xs) : xs[i] = v /\ \A j \in 1..(i - 1) : xs[j] # v
    ELSE 0

\* the indices in I, in increasing order (the order forEach pushes them)
InOrder(I, len) == SelectSeq([i \in 1..len |-> i], LAMBDA i : i \in I)

InsightResult(lbls, raws, hi, lo, cnt, total, ex, dsq, mx, mn, hl, ll, tr, snum, sden, recs, acc) ==
    [isNull |-> FALSE, labels |-> lbls, rawValues |-> raws,
     highIndices |-> hi, lowIndices |-> lo,
     n |-> cnt, sum |-> total, scale |-> ex, devSq |-> dsq,
     vmax |-> mx, vmin |-> mn, highLabel |-> hl, lowLabel |-> ll,
     trend |-> tr, slopeNum |-> snum, slopeDen |-> sden,
     recommendations |-> recs, accuracy |-> acc]

InsightNull ==
    [isNull |-> TRUE, labels |-> <<>>, rawValues |-> <<>>,
     highIndices |-> <<>>, lowIndices |-> <<>>,
     n |-> 0, sum |-> 0, scale |-> 0, devSq |-> 0,
     vmax |-> Null, vmin |-> Null, highLabel |-> Null, lowLabel |-> Null,
     trend |-> "", slopeNum |-> 0, slopeDen |-> 1,
     recommendations |-> <<>>,
     accuracy |-> [level |-> "", rowsUsed |-> 0, metric |-> Null]]

\* std === 0 of an Insight Result
StdIsZero(ins) == ins.devSq = 0

Recommendation(rl, metric, ref) == [rule |-> rl, metric |-> metric, ref |-> ref]

sValue == Str(kValue)

\* the largest number of decimals among the valid values
ScaleOf(valid) == SeqMax([i \in 1..Len(valid) |-> valid[i].d])

\* v as an integer multiple of 10^-E
Scaled(v, E) == v.n * Pow10(E - v.d)

\* n * (x - mean)
Deviation(x, n, sum) == n * x - sum

\* line 155-158: n^2 * (n - 1) * variance
SumSqDev(vs, n, sum) ==
    IF n > 1
    THEN SeqSum([i \in 1..n |-> Deviation(vs[i], n, sum) * Deviation(vs[i], n, sum)])
    ELSE 0

\* line 171: x > mean + 0.7 * std
IsAbove(x, n, sum, devSq) ==
    /\ Deviation(x, n, sum) > 0
    /\ 100 * (n - 1) * Deviation(x, n, sum) * Deviation(x, n, sum) > 49 * devSq

\* line 172: x < mean - 0.7 * std
IsBelow(x, n, sum, devSq) ==
    /\ Deviation(x, n, sum) < 0
    /\ 100 * (n - 1) * Deviation(x, n, sum) * Deviation(x, n, sum) > 49 * devSq

\* variant: the index pushed is the position among the valid values
highIndicesAmongValid(raw, E, n, sum, devSq) ==
    InOrder({Cardinality({j \in 1..i : raw[j] # Null}) :
                i \in {k \in 1..Len(raw) : /\ raw[k] # Null
                                             /\ devSq # 0
                                             /\ IsAbove(Scaled(raw[k], E), n, sum, devSq)}},
            Len(raw))

\* lines 167-173; indices counted from 1
highIndicesOf(raw, E, n, sum, devSq) ==
    InOrder({i \in 1..Len(raw) : /\ raw[i] # Null
                                  /\ devSq # 0
                                  /\ IsAbove(Scaled(raw[i], E), n, sum, devSq)}, Len(raw))

lowIndicesOf(raw, E, n, sum, devSq) ==
    InOrder({i \in 1..Len(raw) : /\ raw[i] # Null
                                  /\ devSq # 0
                                  /\ ~IsAbove(Scaled(raw[i], E), n, sum, devSq)
                                  /\ IsBelow(Scaled(raw[i], E), n, sum, devSq)}, Len(raw))

\* lines 175-184: slope = SlopeNum / SlopeDen over x = 0 .. n-1
SlopeDen(n) ==
    LET sumX  == SeqSum([i \in 1..n |-> i - 1])
        sumX2 == SeqSum([i \in 1..n |-> (i - 1) * (i - 1)])
    IN  IF n > 1 /\ n * sumX2 - sumX * sumX # 0 THEN n * sumX2 - sumX * sumX ELSE 1

SlopeNum(vs, n, sum) ==
    IF n > 1
    THEN n * SeqSum([i \in 1..n |-> (i - 1) * vs[i]])
         - SeqSum([i \in 1..n |-> i - 1]) * sum
    ELSE 0

\* variant: the sign of the lower threshold dropped (slope < 0.01 * mean)
trendOfSignDropped(n, sum, snum, sden) ==
    IF 100 * n * snum > sum * sden THEN "increasing"
    ELSE IF 100 * n * snum < sum * sden THEN "decreasing"
    ELSE "relatively stable"

\* lines 186-188: slope > 0.01 * mean, slope < -0.01 * mean (sden > 0, n > 0)
trendOf(n, sum, snum, sden) ==
    IF 100 * n * snum > sum * sden THEN "increasing"
    ELSE IF 100 * n * snum < 0 - sum * sden THEN "decreasing"
    ELSE "relatively stable"

\* line 190
metricNameOf(sp) ==
    OrElse(IF Truthy(sp)
           THEN OrElse(Get(sp, kY), OrElse(Get(sp, kYKey), sValue))
           ELSE sp,
           sValue)

\* lines 192-195; idx counted from 1, 0 for -1
labelAt(labels, idx, fallback) ==
    IF idx >= 1 /\ idx <= Len(labels) THEN labels[idx] ELSE fallback

sHighest == Str(<<"t","h","e"," ","h","i","g","h","e","s","t"," ","p","e","r","i","o","d">>)
sLowest  == Str(<<"t","h","e"," ","l","o","w","e","s","t"," ","p","e","r","i","o","d">>)

\* variant: the note on low values pushed before the note on high values
recommendationsLowFirst(trend, metric, lowLabel, hi, lo) ==
    <<IF trend = "increasing" THEN Recommendation("trend-increasing", metric, Null)
      ELSE IF trend = "decreasing" THEN Recommendation("trend-decreasing", metric, lowLabel)
      ELSE Recommendation("trend-stable", metric, Null)>>
    \o (IF Len(lo) # 0 THEN <<Recommendation("low-outliers", Null, Null)>> ELSE <<>>)
    \o (IF Len(hi) # 0 THEN <<Recommendation("high-outliers", Null, Null)>> ELSE <<>>)

\* lines 208-232: which sentences are pushed, with what they are built from
recommendationsOf(trend, metric, lowLabel, hi, lo) ==
    <<IF trend = "increasing" THEN Recommendation("trend-increasing", metric, Null)
      ELSE IF trend = "decreasing" THEN Recommendation("trend-decreasing", metric, lowLabel)
      ELSE Recommendation("trend-stable", metric, Null)>>
    \o (IF Len(hi) # 0 THEN <<Recommendation("high-outliers", Null, Null)>> ELSE <<>>)
    \o (IF Len(lo) # 0 THEN <<Recommendation("low-outliers", Null, Null)>> ELSE <<>>)

\* variant: the two thresholds taken strictly
accuracyLevelStrict(n) == IF n > 10 THEN "high" ELSE IF n > 5 THEN "medium" ELSE "low"

\* lines 234-239
accuracyLevel(n) == IF n >= 10 THEN "high" ELSE IF n >= 5 THEN "medium" ELSE "low"

\* lines 161-260, from the moments on
insightsFromMoments(labels, raw, E, n, sum, devSq, vmax, vmin, snum, sden, sp) ==
    LET trend    == trendOf(n, sum, snum, sden)
        lowLabel == labelAt(labels, IndexOf(raw, vmin), sLowest)
        hi       == highIndicesOf(raw, E, n, sum, devSq)
        lo       == lowIndicesOf(raw, E, n, sum, devSq)
    IN  InsightResult(labels, raw, hi, lo, n, sum, E, devSq, vmax, vmin,
                      labelAt(labels, IndexOf(raw, vmax), sHighest), lowLabel,
                      trend, snum, sden,
                      recommendationsOf(trend, metricNameOf(sp), lowLabel, hi, lo),
                      [level |-> accuracyLevel(n), rowsUsed |-> n,
                       metric |-> metricNameOf(sp)])

\* lines 151-165 and 175-184: the moments of the scaled valid values vs
insightsFromScaled(labels, raw, vs, E, n, sum, sp) ==
    insightsFromMoments(labels, raw, E, n, sum, SumSqDev(vs, n, sum),
                        Num(SeqMax(vs), E), Num(SeqMin(vs), E),
                        SlopeNum(vs, n, sum), SlopeDen(n), sp)

\* variant: the slope is taken against the original row positions of the
\* valid values (null-valued rows counted as positions)
insightsFromValidAtRowPositions(labels, raw, valid, E, sp) ==
    LET ord == InOrder({i \in 1..Len(raw) : raw[i] # Null}, Len(raw))
        vs  == [k \in 1..Len(valid) |-> Scaled(valid[k], E)]
        n   == Len(valid)
        sx  == SeqSum([k \in 1..n |-> ord[k] - 1])
        sx2 == SeqSum([k \in 1..n |-> (ord[k] - 1) * (ord[k] - 1)])
        sxy == SeqSum([k \in 1..n |-> (ord[k] - 1) * vs[k]])
    IN  insightsFromMoments(labels, raw, E, n, SeqSum(vs), SumSqDev(vs, n, SeqSum(vs)),
                            Num(SeqMax(vs), E), Num(SeqMin(vs), E),
                            IF n > 1 THEN n * sxy - sx * SeqSum(vs) ELSE 0,
                            IF n > 1 /\ n * sx2 - sx * sx # 0 THEN n * sx2 - sx * sx ELSE 1,
                            sp)

insightsFromValid(labels, raw, valid, E, sp) ==
    insightsFromScaled(labels, raw, [i \in 1..Len(valid) |-> Scaled(valid[i], E)],
                       E, Len(valid),
                       SeqSum([i \in 1..Len(valid) |-> Scaled(valid[i], E)]), sp)

\* variant: a single valid value is treated as no data
insightsFromValuesNeedingTwo(labels, raw, valid, sp) ==
    IF Len(valid) <= 1 THEN InsightNull
    ELSE insightsFromValid(labels, raw, valid, ScaleOf(valid), sp)

\* lines 145-149
insightsFromValues(labels, raw, valid, sp) ==
    IF Len(valid) = 0 THEN InsightNull
    ELSE insightsFromValid(labels, raw, valid, ScaleOf(valid), sp)

\* line 143
insightLabels(nm) ==
    [i \in 1..Len(nm.rows) |-> Coalesce(Get(nm.rows[i], kLabel), Str(<<>>))]

\* variant: a row without a number counts as the number 0
insightRawValuesNullAsZero(nm) ==
    [i \in 1..Len(nm.rows) |->
        IF safeNumber(Get(nm.rows[i], kValue)) = Null THEN Whole(0)
        ELSE safeNumber(Get(nm.rows[i], kValue))]

\* line 144
insightRawValues(nm) ==
    [i \in 1..Len(nm.rows) |-> safeNumber(Get(nm.rows[i], kValue))]

computeInsightsFromNorm(nm, sp) ==
    IF nm.kind # "rows" \/ Len(nm.rows) = 0 THEN InsightNull
    ELSE insightsFromValues(insightLabels(nm), insightRawValues(nm),
                            SelectSeq(insightRawValues(nm), LAMBDA v : v # Null), sp)

----------------------------------------------------------------------------
(* renderPlotly, kind rows: the values handed to the plot *)

plotValues(nm) ==
    IF nm.kind = "rows"
    THEN [i \in 1..Len(nm.rows) |->
            IF Get(nm.rows[i], kValue) = Null THEN Whole(0) ELSE Get(nm.rows[i], kValue)]
    ELSE <<>>

\* the value of a variable that takes no part (yet)
Idle == Undefined

\* nothing outside the chart renderer takes part
OutsideIdle == chat = Idle /\ auth = Idle /\ store = Idle /\ page = Idle

\* the outcome of renderPlotly's axis resolution when it does not return
AxesThrown == [x |-> Undefined, y |-> Undefined, thrown |-> TRUE]

\* lines 424-433: the axis fields of a raw_table.  Object.keys(table[0])
\* throws for a null or undefined first row; keys[0] / keys[1] are undefined
\* past the end; an absent spec is the component's default {} (line 263)
plotAxes(nm, sp) ==
    IF nm.kind # "raw_table" \/ Len(nm.table) = 0 THEN Idle
    ELSE IF IsNullish(nm.table[1]) THEN AxesThrown
    ELSE LET keys == OwnKeys(nm.table[1])
             key0 == IF Len(keys) >= 1 THEN Str(keys[1]) ELSE Undefined
             key1 == IF Len(keys) >= 2 THEN Str(keys[2]) ELSE Undefined
         IN  [x |-> Coalesce(Get(sp, kX), Coalesce(Get(sp, kXKey), key0)),
              y |-> Coalesce(Get(sp, kY), Coalesce(Get(sp, kYKey), key1)),
              thrown |-> FALSE]

----------------------------------------------------------------------------
(* Harness for safeNumber: the argument is drawn in Init, Coerce applies it *)

CoerceChars == {"1", "5", ",", ".", " ", "a", "-"}

StringsUpTo(chars, len) == UNION {[1..l -> chars] : l \in 0..len}

sThousands == <<"1", ",", "2", "3", "4", ".", "5">>

CoerceInputs ==
    {Str(cs) : cs \in StringsUpTo(CoerceChars, MaxStrLen)}
    \cup {Str(sThousands), Str(<<" ", "4", "2", " ">>), Str(<<"+", "5">>)}
    \cup {Null, Undefined, NaN, Bool(TRUE), Bool(FALSE)}
    \cup {Whole(42), Whole(0), Whole(0 - 5), Num(12345, 1)}
    \cup {Arr(<<>>), Arr(<<Whole(1), Whole(2)>>), Obj(<<>>, <<>>)}

CoerceInit ==
    /\ pc = "coerce"
    /\ cIn \in CoerceInputs
    /\ cOut = Idle
    /\ aggregated = Idle /\ spec = Idle /\ norm = Idle
    /\ insights = Idle /\ plotted = <<>> /\ axes = Idle
    /\ OutsideIdle

Coerce ==
    /\ pc = "coerce"
    /\ cOut' = safeNumber(cIn)
    /\ pc' = "coerced"
    /\ UNCHANGED <<cIn, aggregated, spec, norm, insights, plotted, axes, outside>>

CoerceNext == Coerce

SpecCoerce == CoerceInit /\ [][CoerceNext]_vars

----------------------------------------------------------------------------
(* Harness for normalizeAggregated, computeInsightsFromNorm and renderPlotly: *)
(* the arguments are drawn in Init from the payload families below, then    *)
(* the three functions are applied in the order ChartRenderer applies them  *)
(* (lines 282, 287, 326-327).                                               *)

MaxMixed == 2

Letter(i) == CASE i = 1 -> "a" [] i = 2 -> "b" [] i = 3 -> "c" [] i = 4 -> "d"
               [] i = 5 -> "e" [] i = 6 -> "f" [] OTHER -> "g"
Lbl(i) == Str(<<Letter(i)>>)

s5   == Str(<<"5">>)
s1c5 == Str(<<"1", ",", "5">>)
sNA  == Str(<<"a">>)
kM   == <<"m">>
kV   == <<"v">>
kFoo == <<"f","o","o">>

SeqsUpTo(S, len) == UNION {[1..l -> S] : l \in 0..len}

\* family 1: arrays of row objects
RowCells == {Whole(5), Whole(50), Null, sNA}

CellArrays ==
    {Arr([i \in 1..Len(cs) |-> Obj(<<kLabel, kValue>>, <<Lbl(i), cs[i]>>)]) :
        cs \in SeqsUpTo(RowCells, MaxRows)}

MixedElems(i) ==
    {Obj(<<kLabel, kValue>>, <<Lbl(i), s1c5>>),
     Obj(<<kName, kY>>, <<Lbl(i), Whole(0 - 5)>>),
     Obj(<<kX, kY>>, <<Lbl(i), Str(<<>>)>>),
     Obj(<<kX, kName, kLabel, kY, kValue>>,
         <<Str(<<"x">>), Str(<<"n">>), Lbl(i), Whole(7), s5>>),
     Obj(<<kFoo>>, <<Whole(1)>>),
     Null, Whole(7)}

MixedArrays ==
    UNION {{Arr(xs) : xs \in {f \in [1..l -> UNION {MixedElems(i) : i \in 1..l}] :
                                \A i \in 1..l : f[i] \in MixedElems(i)}} :
           l \in 1..MaxMixed}

\* family 2: objects with labels and values and/or series
SeriesA == Obj(<<kName, kValues>>, <<Str(<<"p">>), Arr(<<Whole(5), s1c5>>)>>)
SeriesB == Obj(<<kName, kValues>>, <<Str(<<"q">>), Arr(<<sNA>>)>>)
SeriesNamedLabel == Obj(<<kName, kValues>>, <<Str(kLabel), Arr(<<Whole(5), Whole(50)>>)>>)
SeriesNoName == Obj(<<kValues>>, <<Arr(<<Whole(5)>>)>>)

LabelsChoices == {Arr(<<>>), Arr(<<Lbl(1)>>), Arr(<<Lbl(1), Lbl(2)>>), Str(<<"a", "b">>)}
ValuesChoices == {Undefined, Arr(<<>>), Arr(<<Whole(5)>>), Arr(<<s1c5, Null, sNA>>), sNA}
SeriesChoices ==
    {Undefined, Arr(<<>>), Arr(<<SeriesA>>), Arr(<<SeriesA, SeriesB>>),
     Arr(<<SeriesNoName, Whole(5)>>), Arr(<<SeriesNamedLabel>>),
     Arr(<<SeriesA, Null>>), sNA}

\* an object of the given keys, the undefined ones left out
ObjOf(ks, xs) ==
    LET keep == InOrder({i \in 1..Len(xs) : xs[i] # Undefined}, Len(xs))
    IN  Obj([i \in 1..Len(keep) |-> ks[keep[i]]], [i \in 1..Len(keep) |-> xs[keep[i]]])

LabelPayloads ==
    {ObjOf(<<kLabels, kValues, kSeries>>, <<l, v, sr>>) :
        l \in LabelsChoices, v \in ValuesChoices, sr \in SeriesChoices}

\* family 3: objects that satisfy several shape tests at once
RawRows == Arr(<<Obj(<<kM, kV>>, <<Lbl(1), s5>>), Obj(<<kM, kV>>, <<Lbl(2), Whole(50)>>)>>)
SpecInner == Obj(<<kX, kY>>, <<Str(kM), Str(kV)>>)
InnerRows == Arr(<<Obj(<<kLabel, kValue>>, <<Lbl(3), Whole(5)>>)>>)

MultiPayloads ==
    {ObjOf(<<kLabels, kValues, kSeries, kRawTable, kX, kY, kChartSpec, kAggregated>>,
           <<IF b[1] THEN Arr(<<Lbl(1)>>) ELSE Undefined,
             IF b[1] /\ b[2] THEN Arr(<<Whole(5)>>) ELSE Undefined,
             IF b[1] /\ ~b[2] THEN Arr(<<SeriesA>>) ELSE Undefined,
             IF b[3] THEN RawRows ELSE Undefined,
             IF b[4] THEN Arr(<<Lbl(2), Lbl(1)>>) ELSE Undefined,
             IF b[4] THEN Arr(<<s5>>) ELSE Undefined,
             IF b[5] THEN SpecInner ELSE Undefined,
             IF b[5] THEN InnerRows ELSE Undefined>>) :
        b \in [1..5 -> BOOLEAN]}

\* family 4: wrappers {chart_spec, aggregated}
DataRows == Arr(<<Obj(<<kM, kV>>, <<Lbl(1), s5>>), Obj(<<kM, kV>>, <<Lbl(2), s1c5>>)>>)
SpecWithData == Obj(<<kType, kX, kY, kData>>, <<Str(<<"b","a","r">>), Str(kM), Str(kV), DataRows>>)

WrapperInner ==
    {InnerRows, Obj(<<kFoo>>, <<Whole(1)>>), Obj(<<kRawTable>>, <<RawRows>>),
     Obj(<<kChartSpec, kAggregated>>, <<SpecInner, InnerRows>>),
     Obj(<<kLabels, kSeries>>, <<Arr(<<Lbl(1)>>), Arr(<<Null>>)>>)}

WrapperPayloads ==
    {Obj(<<kChartSpec, kAggregated>>, <<cs, inner>>) :
        cs \in {SpecInner, SpecWithData, Obj(<<kFoo>>, <<Whole(1)>>)}, inner \in WrapperInner}

\* wrappers one of whose two fields is present but carries no value
HollowWrappers ==
    {Obj(<<kChartSpec, kAggregated>>, <<SpecWithData, Null>>),
     Obj(<<kChartSpec, kAggregated>>, <<SpecInner, Whole(0)>>),
     Obj(<<kChartSpec, kAggregated>>, <<Null, InnerRows>>)}

\* raw tables: rows of two fields (values as text and as numbers), an empty
\* table, a one-field row, and tables holding a null row
RawTables ==
    {RawRows, DataRows, Arr(<<>>), Arr(<<Obj(<<kM>>, <<Lbl(1)>>)>>),
     Arr(<<Obj(<<kV, kM>>, <<s1c5, Lbl(1)>>), Null>>), Arr(<<Null>>)}

RawTablePayloads ==
    {Obj(<<kRawTable>>, <<t>>) : t \in RawTables}
    \cup {Obj(<<kFoo, kX, kY, kRawTable>>, <<Whole(1), Arr(<<Lbl(1)>>), Arr(<<s5>>), t>>) :
             t \in RawTables}

AxisSpecs ==
    {Null, Obj(<<>>, <<>>), SpecInner, SpecWithData,
     Obj(<<kXKey, kYKey>>, <<Str(kV), Str(kM)>>),
     Obj(<<kX>>, <<Str(kV)>>),
     Obj(<<kXKey, kX, kYKey, kY>>, <<Str(kV), Str(kM), Str(kM), Str(kV)>>)}

\* families 5 and 6: no payload, or a payload of no shape, against the specs
DataChoices ==
    {Arr(<<>>), DataRows, Arr(<<Null>>), Arr(<<Whole(5)>>),
     Arr(<<Obj(<<kM, kV>>, <<Lbl(1), s5>>), Null>>),
     Arr(<<Obj(<<kM>>, <<Lbl(1)>>)>>),
     Arr(<<Obj(<<kValue, kV>>, <<Lbl(1), s5>>)>>),
     Arr(<<Obj(<<kLabel, kValue, kM, kV>>, <<Lbl(1), sNA, Lbl(2), Whole(50)>>)>>)}

AxisChoices ==
    {<<Undefined, Undefined, Undefined, Undefined>>,
     <<Str(kM), Str(kV), Undefined, Undefined>>,
     <<Undefined, Undefined, Str(kM), Str(kV)>>,
     <<Str(kValue), Str(kV), Undefined, Undefined>>}

DataSpecs ==
    {ObjOf(<<kX, kY, kXKey, kYKey, kData>>, <<ax[1], ax[2], ax[3], ax[4], dt>>) :
        ax \in AxisChoices, dt \in DataChoices}

OtherSpecs ==
    {Null, Undefined, Obj(<<>>, <<>>), SpecInner,
     Obj(<<kType>>, <<Str(<<"p","i","e">>)>>),
     Obj(<<kAggregated>>, <<InnerRows>>),
     Obj(<<kAggregated, kData>>, <<Obj(<<kFoo>>, <<Whole(1)>>), DataRows>>),
     Obj(<<kLabels, kValues>>, <<Arr(<<Lbl(1)>>), Arr(<<s5>>)>>),
     Obj(<<kChartSpec, kAggregated>>, <<SpecInner, InnerRows>>),
     SpecWithData}

AbsentPayloads == {Null, Undefined, Whole(0), Str(<<>>), Bool(FALSE)}
ShapelessPayloads ==
    {Obj(<<>>, <<>>), Obj(<<kFoo>>, <<Whole(1)>>), Whole(5), sNA, Bool(TRUE),
     Obj(<<kLabels>>, <<Arr(<<Lbl(1)>>)>>), Obj(<<kX>>, <<Arr(<<Lbl(1)>>)>>),
     Obj(<<kChartSpec>>, <<SpecInner>>)}

Inputs ==
    (CellArrays \X {Null, SpecInner})
    \cup (MixedArrays \X {Null})
    \cup (LabelPayloads \X {Null, SpecWithData})
    \cup (MultiPayloads \X {Null, SpecWithData})
    \cup (WrapperPayloads \X {Null, SpecWithData})
    \cup (HollowWrappers \X {Null, SpecWithData, SpecInner})
    \cup (RawTablePayloads \X AxisSpecs)
    \cup ((AbsentPayloads \cup ShapelessPayloads) \X (DataSpecs \cup OtherSpecs))

Init ==
    /\ pc = "start"
    /\ \E inp \in Inputs : aggregated = inp[1] /\ spec = inp[2]
    /\ norm = Idle /\ insights = Idle /\ plotted = <<>>
    /\ cIn = Idle /\ cOut = Idle /\ axes = Idle
    /\ OutsideIdle

\* variant: the array branch writes label and value into the elements of
\* the payload instead of into copies of them
NormalizeInPlace ==
    /\ pc \in {"start", "restart"}
    /\ norm' = normalizeAggregated(aggregated, spec)
    /\ pc' = IF norm'.kind = "TypeError" THEN "thrown"
             ELSE IF pc = "restart" THEN "renormalized" ELSE "normalized"
    /\ aggregated' = IF IsArray(aggregated) /\ norm'.kind = "rows"
                      THEN Arr([i \in 1..Len(aggregated.a) |->
                                  IF Truthy(aggregated.a[i]) /\ TypeofObject(aggregated.a[i])
                                  THEN rowFromElement(aggregated.a[i])
                                  ELSE aggregated.a[i]])
                      ELSE aggregated
    /\ UNCHANGED <<spec, insights, plotted, axes, cIn, cOut, outside>>

\* line 282: norm = normalizeAggregated(aggregated, spec), on the first
\* render and again on a later one; a TypeError leaves no canonical shape.
\* The function assigns to its own parameter (line 52) and to objects it
\* has created itself (lines 60-64, 86-89, 115-119): the caller's
\* aggregated and spec are left as they were.
Normalize ==
    /\ pc \in {"start", "restart"}
    /\ norm' = normalizeAggregated(aggregated, spec)
    /\ pc' = IF norm'.kind = "TypeError" THEN "thrown"
             ELSE IF pc = "restart" THEN "renormalized" ELSE "normalized"
    /\ UNCHANGED <<aggregated, spec, insights, plotted, axes, cIn, cOut, outside>>

\* line 287: insights = computeInsightsFromNorm(norm, spec)
ComputeInsights ==
    /\ pc = "normalized"
    /\ insights' = computeInsightsFromNorm(norm, spec)
    /\ pc' = "analysed"
    /\ UNCHANGED <<aggregated, spec, norm, plotted, axes, cIn, cOut, outside>>

\* lines 325-327: the magnitudes of a rows shape
RenderPlotly ==
    /\ pc = "analysed"
    /\ plotted' = plotValues(norm)
    /\ pc' = "rendered"
    /\ axes' = plotAxes(norm, spec)
    /\ UNCHANGED <<aggregated, spec, norm, insights, cIn, cOut, outside>>

\* line 282: the component is rendered again with the same aggregated and
\* spec (as new references, so that useMemo recomputes)
Rerender ==
    /\ pc = "rendered"
    /\ pc' = "restart"
    /\ UNCHANGED <<aggregated, spec, norm, insights, plotted, axes, cIn, cOut, outside>>

Next == Normalize \/ ComputeInsights \/ RenderPlotly \/ Rerender

Spec == Init /\ [][Next]_vars

----------------------------------------------------------------------------
(* Harness for the statistics of computeInsightsFromNorm: the same three    *)
(* steps, started from arrays of label/value rows whose values vary in      *)
(* sign, order and number (short arrays exhaustively, long arrays by        *)
(* pattern), some of the values missing or given as text.                   *)

MaxLong == 11

StatLbl(i) == Str(<<"r">> \o NatToChars(i))

StatCells == {Whole(0 - 2), Whole(0), Whole(2), Whole(7), Null, Str(<<"4">>)}

\* a row of value v at position i; an unlabelled row carries no label field
StatRow(i, v, labelled) ==
    IF labelled THEN Obj(<<kLabel, kValue>>, <<StatLbl(i), v>>)
    ELSE Obj(<<kValue>>, <<v>>)

\* short arrays: every sequence of cells; in the second variant the rows at
\* odd positions are unlabelled
StatShort ==
    {Arr([i \in 1..Len(cs) |-> StatRow(i, cs[i], all \/ i % 2 = 0)]) :
        cs \in SeqsUpTo(StatCells, MaxRows), all \in BOOLEAN}

StatPatterns == {"constant", "negative", "rising", "falling", "zigzag", "centred"}

StatPattern(p, i, len) ==
    CASE p = "constant" -> Whole(3)
      [] p = "negative" -> Whole(0 - 3)
      [] p = "rising"   -> Whole(i)
      [] p = "falling"  -> Whole(len - i)
      [] p = "zigzag"   -> Whole(IF i % 2 = 1 THEN 1 ELSE 9)
      [] OTHER          -> Whole(2 * i - len - 1)

StatMasks == {"none", "odd", "first", "tail"}

\* whether the value at position i is missing under mask m
StatMasked(m, i, len) ==
    CASE m = "none"  -> FALSE
      [] m = "odd"   -> i % 2 = 1
      [] m = "first" -> i = 1
      [] OTHER       -> i > len - 2

StatLong ==
    {Arr([i \in 1..len |->
            StatRow(i, IF StatMasked(m, i, len) THEN Null ELSE StatPattern(p, i, len), TRUE)]) :
        len \in 5..MaxLong, p \in StatPatterns, m \in StatMasks}

StatInputs == (StatShort \X {Null}) \cup (StatLong \X {Null, SpecInner})

StatsInit ==
    /\ pc = "start"
    /\ \E inp \in StatInputs : aggregated = inp[1] /\ spec = inp[2]
    /\ norm = Idle /\ insights = Idle /\ plotted = <<>>
    /\ cIn = Idle /\ cOut = Idle /\ axes = Idle
    /\ OutsideIdle

SpecStats == StatsInit /\ [][Next]_vars

----------------------------------------------------------------------------
(* chatApi.js: _fetchJson and sendQuestion.  Error messages are kept as     *)
(* character sequences, because sendQuestion decides on the fallback by     *)
(* looking for substrings of the lower-cased message.                       *)

UpperCase == <<"A","B","C","D","E","F","G","H","I","J","K","L","M",
               "N","O","P","Q","R","S","T","U","V","W","X","Y","Z">>
LowerCase == <<"a","b","c","d","e","f","g","h","i","j","k","l","m",
               "n","o","p","q","r","s","t","u","v","w","x","y","z">>

\* String.prototype.toLowerCase
ToLowerCase(cs) ==
    [i \in 1..Len(cs) |->
        IF \E j \in 1..26 : UpperCase[j] = cs[i]
        THEN LowerCase[CHOOSE j \in 1..26 : UpperCase[j] = cs[i]]
        ELSE cs[i]]

\* String.prototype.includes
Includes(cs, sub) ==
    \E i \in 1..(Len(cs) - Len(sub) + 1) : SubSeq(cs, i, i + Len(sub) - 1) = sub

\* line 89
sMustBeString ==
  <<"s","e","n","d","Q","u","e","s","t","i","o","n",":"," ","'","q","u","e",
      "s","t","i","o","n","'"," ","m","u","s","t"," ","b","e"," ","a"," ",
      "n","o","n","-","e","m","p","t","y"," ","s","t","r","i","n","g">>

\* lines 38-40
sExpectedJson ==
  <<"E","x","p","e","c","t","e","d"," ","J","S","O","N"," ","b","u","t"," ",
      "r","e","c","e","i","v","e","d"," ","H","T","M","L","."," ","T","h",
      "i","s"," ","o","f","t","e","n"," ","m","e","a","n","s"," ","t","h",
      "e"," ","A","P","I"," ","p","a","t","h"," ","i","s"," ","w","r","o",
      "n","g"," ","o","r"," ","t","h","e"," ","b","a","c","k","e","n","d",
      " ","r","e","t","u","r","n","e","d"," ","a","n"," ","H","T","M","L",
      " ","e","r","r","o","r"," ","p","a","g","e","."," ","S","n","i","p",
      "p","e","t",":"," ">>

\* line 49
sFailedToParse ==
  <<"F","a","i","l","e","d"," ","t","o"," ","p","a","r","s","e"," ","J","S",
      "O","N"," ","r","e","s","p","o","n","s","e","."," ","R","a","w"," ",
      "r","e","s","p","o","n","s","e",":"," ">>

\* line 61
sRequestFailed == <<"R","e","q","u","e","s","t"," ","f","a","i","l","e","d"," ">>
sPreview == <<"."," ","P","r","e","v","i","e","w",":"," ">>

\* line 67
sAborted == <<"R","e","q","u","e","s","t"," ","a","b","o","r","t","e","d"," ","d","u",
      "e"," ","t","o"," ","t","i","m","e","o","u","t"," ","(">>
sMs == <<" ","m","s",")",".">>

\* line 151
sPostFailed == <<"P","O","S","T"," ","/","c","h","a","t","/","r","e","s","p","o","n","d",
      " ","f","a","i","l","e","d",":"," ">>
sGetFailed ==
  <<"."," ","F","a","l","l","b","a","c","k"," ","G","E","T"," ","/","c","h",
      "a","t","/","a","s","k"," ","a","l","s","o"," ","f","a","i","l","e",
      "d",":"," ">>

\* the message of the TypeError fetch rejects with when the network fails
sFailedToFetch == <<"F","a","i","l","e","d"," ","t","o"," ","f","e","t","c","h">>

\* what the network answers to one request
Answer(kd, st, txt) == [kind |-> kd, status |-> st, text |-> txt]

\* JSON.stringify of a body {detail: text}
BodyJson(txt) == <<"{","\"","d","e","t","a","i","l","\"",":","\"">> \o txt \o <<"\"","}">>

\* the outcome of an awaited call: a value returned or an Error thrown
Returns(v) == [ok |-> TRUE, value |-> v, message |-> <<>>]
Throws(msg) == [ok |-> FALSE, value |-> <<>>, message |-> msg]

\* lines 15-76: _fetchJson for the answer ans and the timeout timeoutMs.  The
\* answer kinds: json (a body {detail: text} with a status), html (content
\* type text/html, body text), text (a body that is not JSON), timeout (the
\* abort fires first), network (fetch rejects)
fetchJson(ans, timeoutMs) ==
    CASE ans.kind = "timeout" ->
            Throws(sAborted \o NatToChars(timeoutMs) \o sMs)
      [] ans.kind = "network" -> Throws(sFailedToFetch)
      [] ans.kind = "html" -> Throws(sExpectedJson \o ans.text)
      [] ans.kind = "text" -> Throws(sFailedToParse \o ans.text)
      [] OTHER ->
            IF ans.status >= 200 /\ ans.status <= 299 THEN Returns(ans.text)
            ELSE Throws(sRequestFailed \o NatToChars(ans.status) \o <<":", " ">>
                        \o ans.text \o sPreview \o BodyJson(ans.text))

\* variant: every failure of the POST falls back to the GET
shouldFallbackAlways(postMsg) == TRUE

\* lines 118-123, postMsg already lower-cased
shouldFallback(postMsg) ==
    \/ Includes(postMsg, <<"4","0","4">>)
    \/ Includes(postMsg, <<"n","o","t"," ","f","o","u","n","d">>)
    \/ Includes(postMsg, <<"c","a","n","n","o","t"," ","p","o","s","t">>)
    \/ Includes(postMsg, ToLowerCase(SubSeq(sExpectedJson, 1, 31)))
    \/ Includes(postMsg, <<"h","t","m","l">>)

\* line 151
combinedMessage(postMsg, getMsg) == sPostFailed \o postMsg \o sGetFailed \o getMsg

\* the chart renderer takes no part
RendererOff ==
    /\ pc = "off"
    /\ aggregated = Idle /\ spec = Idle /\ norm = Idle /\ insights = Idle
    /\ plotted = <<>> /\ axes = Idle /\ cIn = Idle /\ cOut = Idle

renderer == <<pc, aggregated, spec, norm, insights, plotted, axes, cIn, cOut>>

----------------------------------------------------------------------------
(* Harness for sendQuestion: the question, the timeout and the answers the  *)
(* network will give to the POST and to the GET are drawn in Init.          *)

DefaultTimeoutMs == 30000

ChatQuestions == {Str(<<>>), Str(<<"q">>), Str(<<" ">>), Null, Undefined, Whole(5)}

ChatTimeouts == {DefaultTimeoutMs, 404}

sJsonOk == <<"o","k">>

PostAnswers ==
    {Answer("json", 200, sJsonOk),
     Answer("json", 404, <<"N","o","t"," ","F","o","u","n","d">>),
     Answer("json", 500, <<"b","o","o","m">>),
     Answer("json", 400, <<"D","a","t","a","s","e","t"," ","n","o","t"," ","f","o","u","n","d">>),
     Answer("json", 500, <<"C","a","n","n","o","t"," ","P","O","S","T"," ","/","c","h","a","t","/","r","e","s","p","o","n","d">>),
     Answer("html", 200, <<"<","!","d","o","c","t","y","p","e",">">>),
     Answer("text", 502, <<"B","a","d"," ","G","a","t","e","w","a","y">>),
     Answer("text", 200, <<"<","H","T","M","L",">">>),
     Answer("timeout", 0, <<>>),
     Answer("network", 0, <<>>)}

GetAnswers ==
    {Answer("json", 200, sJsonOk),
     Answer("json", 500, <<"b","o","o","m">>),
     Answer("html", 200, <<"<","!","d","o","c","t","y","p","e",">">>),
     Answer("timeout", 0, <<>>)}

ChatInit ==
    /\ RendererOff
    /\ auth = Idle /\ store = Idle /\ page = Idle
    /\ \E q \in ChatQuestions, t \in ChatTimeouts, pa \in PostAnswers, ga \in GetAnswers :
          chat = [pc |-> "start", question |-> q, timeoutMs |-> t,
                  post |-> pa, get |-> ga, requests |-> <<>>,
                  postErr |-> <<>>, result |-> Idle]

\* lines 88-90: the validation
ChatValidate ==
    /\ chat # Idle /\ chat.pc = "start"
    /\ chat' = IF ~Truthy(chat.question) \/ chat.question.t # "str"
               THEN [chat EXCEPT !.pc = "done", !.result = Throws(sMustBeString)]
               ELSE [chat EXCEPT !.pc = "post"]
    /\ UNCHANGED <<renderer, auth, store, page>>

\* lines 101-114: POST /chat/respond is issued and awaited
ChatPost ==
    /\ chat # Idle /\ chat.pc = "post"
    /\ chat' = LET out == fetchJson(chat.post, chat.timeoutMs)
               IN  IF out.ok
                   THEN [chat EXCEPT !.pc = "done", !.result = out,
                                     !.requests = Append(@, "POST /chat/respond")]
                   ELSE [chat EXCEPT !.pc = "caught", !.postErr = out.message,
                                     !.requests = Append(@, "POST /chat/respond")]
    /\ UNCHANGED <<renderer, auth, store, page>>

\* lines 115-130: the catch of the POST decides on the fallback
ChatCatch ==
    /\ chat # Idle /\ chat.pc = "caught"
    /\ chat' = IF shouldFallback(ToLowerCase(chat.postErr))
               THEN [chat EXCEPT !.pc = "fallback"]
               ELSE [chat EXCEPT !.pc = "done", !.result = Throws(chat.postErr)]
    /\ UNCHANGED <<renderer, auth, store, page>>

\* lines 132-153: GET /chat/ask is issued and awaited
ChatGet ==
    /\ chat # Idle /\ chat.pc = "fallback"
    /\ chat' = LET out == fetchJson(chat.get, chat.timeoutMs)
               IN  [chat EXCEPT !.pc = "done",
                                !.requests = Append(@, "GET /chat/ask"),
                                !.result = IF out.ok THEN out
                                           ELSE Throws(combinedMessage(chat.postErr,
                                                                       out.message))]
    /\ UNCHANGED <<renderer, auth, store, page>>

ChatNext == ChatValidate \/ ChatPost \/ ChatCatch \/ ChatGet

SpecChat == ChatInit /\ [][ChatNext]_vars

----------------------------------------------------------------------------
(* AuthPages (src/unnamed/part_001 and its later version part_002):         *)
(* updateUserStats and the login, Google login and signup handlers;          *)
(* SidebarLayout.jsx: handleLogout.  localStorage is a record of its three   *)
(* items, each null (no item) or the value whose JSON text is stored.        *)

kEmail      == <<"e","m","a","i","l">>
kLoginCount == <<"l","o","g","i","n","C","o","u","n","t">>
sUser       == <<"U","s","e","r">>
sNoEmail    == <<"n","o","-","e","m","a","i","l",":">>

EmptyObj == Obj(<<>>, <<>>)

\* JSON.parse(JSON.stringify(v)): a property whose value is undefined is
\* left out, NaN is written as null, an undefined array element as null
RECURSIVE JsonKept(_, _, _)
JsonKept(ks, xs, acc) ==
    IF ks = <<>> THEN acc
    ELSE JsonKept(Tail(ks), Tail(xs),
                  IF Head(xs).t = "undefined" THEN acc
                  ELSE SetProp(acc, Head(ks), Head(xs)))

RECURSIVE JsonRoundTrip(_)
JsonRoundTrip(v) ==
    CASE v.t = "nan" -> Null
      [] v.t = "arr" ->
            Arr([i \in 1..Len(v.a) |->
                    IF v.a[i].t = "undefined" THEN Null ELSE JsonRoundTrip(v.a[i])])
      [] v.t = "obj" ->
            JsonKept(v.k, [i \in 1..Len(v.a) |-> JsonRoundTrip(v.a[i])], EmptyObj)
      [] OTHER -> v

\* user.email || `no-email:${user.name || "User"}`
emailKeyOf(user) ==
    IF Truthy(Get(user, kEmail)) THEN PropKey(Get(user, kEmail))
    ELSE sNoEmail \o ToStr(OrElse(Get(user, kName), Str(sUser)))

\* stats[emailKey] || { name, email, loginCount: 0 }
existingStats(stats, user) ==
    OrElse(Get(stats, emailKeyOf(user)),
           Obj(<<kName, kEmail, kLoginCount>>,
               <<OrElse(Get(user, kName), Str(sUser)),
                 OrElse(Get(user, kEmail), Str(<<>>)),
                 Whole(0)>>))

\* a key seen before keeps its count
nextLoginCountOncePerKey(existing) ==
    IF Truthy(Get(existing, kLoginCount)) THEN Get(existing, kLoginCount) ELSE Whole(1)

\* (existing.loginCount || 0) + 1
nextLoginCount(existing) == Whole(OrElse(Get(existing, kLoginCount), Whole(0)).n + 1)

\* the entry written back: part_001 refreshes name and email from the user,
\* part_002 keeps those of the existing entry
updatedStats(version, existing, user) ==
    IF version = "part_001"
    THEN SetProp(SetProp(SetProp(Spread(EmptyObj, existing),
                                 kName, OrElse(Get(user, kName), Get(existing, kName))),
                         kEmail, OrElse(Get(user, kEmail), Get(existing, kEmail))),
                 kLoginCount, nextLoginCount(existing))
    ELSE SetProp(Spread(EmptyObj, existing), kLoginCount, nextLoginCount(existing))

\* updateUserStats(user): the user_stats item afterwards, from the item raw
updateUserStats(version, raw, user) ==
    IF ~Truthy(user) THEN raw
    ELSE LET stats == IF raw = Null THEN EmptyObj ELSE OrElse(raw, EmptyObj)
         IN  JsonRoundTrip(SetProp(stats, emailKeyOf(user),
                                   updatedStats(version, existingStats(stats, user), user)))

\* the storage after a handler got its answer from the server: an answer
\* that is not ok, or a request that failed, throws before anything is stored
storageAfterAnswer(version, ls, ans) ==
    IF ~ans.ok THEN ls
    ELSE [ls EXCEPT !.user = JsonRoundTrip(ans.user),
                    !.user_stats = updateUserStats(version, ls.user_stats, ans.user)]

\* handleLogout: removeItem("token"), removeItem("user")
storageAfterLogout(ls) == [ls EXCEPT !.token = Null, !.user = Null]

----------------------------------------------------------------------------
(* Harness for the login counts: a run is a sequence of at most MaxEvents    *)
(* login, Google login, signup and logout events; the server's answer to     *)
(* each request is drawn when the handler runs.  The events are logged.      *)

MaxEvents == 3

AuthUser(name, email) == Obj(<<kName, kEmail>>, <<Str(name), Str(email)>>)

AuthUsers ==
    { AuthUser(<<"A">>, <<"a">>), AuthUser(<<"B">>, <<"a">>), AuthUser(<<"B">>, <<>>),
      AuthUser(<<>>, <<>>), Obj(<<kName>>, <<Str(sUser)>>) }

AuthAnswers ==
    { [ok |-> TRUE, user |-> u] : u \in AuthUsers \cup {Null} }
        \cup { [ok |-> FALSE, user |-> Undefined] }

AuthVersions == {"part_001", "part_002"}

AuthInit ==
    /\ RendererOff
    /\ chat = Idle /\ store = Idle /\ page = Idle
    /\ \E v \in AuthVersions, tok \in {Null, Str(<<"t">>)} :
          auth = [version |-> v,
                  ls |-> [user_stats |-> Null, user |-> Null, token |-> tok],
                  log |-> <<>>]

AuthRequest(kind) ==
    /\ auth # Idle
    /\ Len(auth.log) < MaxEvents
    /\ \E ans \in AuthAnswers :
          auth' = [auth EXCEPT
                     !.ls = storageAfterAnswer(auth.version, auth.ls, ans),
                     !.log = Append(auth.log, [kind |-> kind, ok |-> ans.ok, user |-> ans.user])]
    /\ UNCHANGED <<renderer, chat, store, page>>

\* LoginPage handleSubmit
AuthLogin == AuthRequest("login")

\* GoogleLogin onSuccess
AuthGoogle == AuthRequest("google")

\* SignupPage handleSubmit
AuthSignup == AuthRequest("signup")

\* SidebarLayout handleLogout
AuthLogout ==
    /\ auth # Idle
    /\ Len(auth.log) < MaxEvents
    /\ auth' = [auth EXCEPT
                  !.ls = storageAfterLogout(auth.ls),
                  !.log = Append(auth.log, [kind |-> "logout", ok |-> TRUE, user |-> Undefined])]
    /\ UNCHANGED <<renderer, chat, store, page>>

AuthNext == AuthLogin \/ AuthGoogle \/ AuthSignup \/ AuthLogout

SpecAuth == AuthInit /\ [][AuthNext]_vars

----------------------------------------------------------------------------
(* dashboardStore.js: the zustand store of the dashboard, with runQuery,     *)
(* applyFilters and createChartFromSpec of the api module.  An async action  *)
(* runs up to its await when it is called and from its await to its end     *)
(* when the request settles; the requests sent and not yet settled are kept  *)
(* in inflight, all requests sent in sent, the settled ones in settled.      *)
(* null is written "null" for datasetRows and error, and as NullChart among  *)
(* the charts.  filters is the set of its key/value pairs.                   *)

NoError    == "null"
RowsNull   == "null"
RowsLoaded == "rows"

sQueryFailed   == "runQuery failed 500: Internal Server Error"
sFiltersFailed == "applyFilters failed 500: Internal Server Error"
sChartsOfNull  == "Cannot read properties of null (reading 'charts')"

NullChart == [isNull |-> TRUE, src |-> "none", req |-> 0, data |-> RowsNull]

\* a chart of the charts array answered to request id
ServerChart(id) == [isNull |-> FALSE, src |-> "server", req |-> id, data |-> RowsNull]

\* createChartFromSpec(chartSpec, df), the chart_spec answered to request id
createChartFromSpec(hasSpec, id, df) ==
    IF ~hasSpec \/ df = RowsNull THEN NullChart
    ELSE [isNull |-> FALSE, src |-> "spec", req |-> id, data |-> df]

\* { ...filters, [key]: value }
withFilter(filters, key, value) == {p \in filters : p[1] # key} \cup {<<key, value>>}

\* addToHistory: the history afterwards; the variant records empty results too
historyAfterAddAlways(s) ==
    <<[id |-> s.clock, question |-> s.question, filters |-> s.filters, charts |-> s.charts]>>
        \o s.history

historyAfterAdd(s) ==
    IF Len(s.charts) = 0 THEN s.history
    ELSE <<[id |-> s.clock, question |-> s.question, filters |-> s.filters,
            charts |-> s.charts]>> \o s.history

\* the store after addToHistory; the clock (Date.now, read when an entry is
\* made) moves on
addToHistory(s) ==
    [s EXCEPT !.history = historyAfterAdd(s),
              !.clock = IF historyAfterAdd(s) = s.history THEN s.clock ELSE s.clock + 1]

\* runQuery / applyFilters rejected: set({ error: e.message }), then finally
\* set({ loading: false }); the variant clears the charts as well
afterFailureClearing(s, msg) == [s EXCEPT !.error = msg, !.loading = FALSE, !.charts = <<>>]

afterFailure(s, msg) == [s EXCEPT !.error = msg, !.loading = FALSE]

\* set({ loading: true, error: null }) and the request sent; the request
\* carries the question and the filters read at the call
afterSend(s, kind) ==
    LET r == [id |-> Len(s.sent) + 1, kind |-> kind,
              question |-> s.question, filters |-> s.filters]
    IN  [s EXCEPT !.loading = TRUE, !.error = NoError,
                  !.sent = Append(s.sent, r), !.inflight = s.inflight \cup {r.id}]

\* res.charts || []
chartsOf(res, id) == IF res.hasCharts THEN [i \in 1..res.nCharts |-> ServerChart(id)] ELSE <<>>

\* submitQuestion from the await on, the request id answered by the body res
afterQueryAnswer(s, id, res) ==
    IF res.isNull THEN afterFailure(s, sChartsOfNull)
    ELSE LET s1 == [s EXCEPT !.charts = chartsOf(res, id)]
             s2 == IF res.hasSpec
                   THEN [s1 EXCEPT !.charts =
                            Append(s1.charts, createChartFromSpec(res.hasSpec, id, s1.datasetRows))]
                   ELSE s1
         IN  [addToHistory(s2) EXCEPT !.loading = FALSE]

\* fetchWithFilters from the await on
afterFiltersAnswer(s, id, res) ==
    IF res.isNull THEN afterFailure(s, sChartsOfNull)
    ELSE [addToHistory([s EXCEPT !.charts = chartsOf(res, id)]) EXCEPT !.loading = FALSE]

----------------------------------------------------------------------------
(* Harness for the store: the user sets the question, a filter and the       *)
(* dataset rows, and calls submitQuestion, fetchWithFilters, drillDown and   *)
(* addToHistory, at most MaxOps calls in a run; every request sent settles   *)
(* at some later step, in any order, with an answer drawn when it settles.   *)

MaxOps == 3

StoreQuestions == {"", "q"}
FilterKeys     == {"year"}
FilterValues   == {"2023", "2024"}

\* the bodies a 200 answer can carry: null, or an object with or without a
\* charts array (of 0 or 1 charts here) and with or without a chart_spec
StoreBodies ==
    { [isNull |-> TRUE, hasCharts |-> FALSE, nCharts |-> 0, hasSpec |-> FALSE] }
        \cup { [isNull |-> FALSE, hasCharts |-> n >= 0, nCharts |-> n, hasSpec |-> hs] :
                 n \in {-1, 0, 1}, hs \in BOOLEAN }

StoreInit ==
    /\ RendererOff
    /\ chat = Idle /\ auth = Idle /\ page = Idle
    /\ store = [question |-> "", filters |-> {}, charts |-> <<>>, loading |-> FALSE,
                error |-> NoError, history |-> <<>>, datasetRows |-> RowsNull,
                sent |-> <<>>, inflight |-> {}, settled |-> {}, ops |-> 0, clock |-> 1]

\* a call is one of the at most MaxOps calls of the run
Called(s) == [s EXCEPT !.ops = store.ops + 1]

StoreStep(s) ==
    /\ store' = s
    /\ UNCHANGED <<renderer, chat, auth, page>>

\* setQuestion(q)
SetQuestion ==
    /\ store # Idle
    /\ store.ops < MaxOps
    /\ \E q \in StoreQuestions \ {store.question} :
          StoreStep(Called([store EXCEPT !.question = q]))

\* updateFilter(key, value)
UpdateFilter ==
    /\ store # Idle
    /\ store.ops < MaxOps
    /\ \E k \in FilterKeys, v \in FilterValues :
          /\ <<k, v>> \notin store.filters
          /\ StoreStep(Called([store EXCEPT !.filters = withFilter(store.filters, k, v)]))

\* setDatasetRows(rows)
SetDatasetRows ==
    /\ store # Idle
    /\ store.ops < MaxOps
    /\ \E rows \in {RowsNull, RowsLoaded} \ {store.datasetRows} :
          StoreStep(Called([store EXCEPT !.datasetRows = rows]))

\* addToHistory called on its own
AddToHistory ==
    /\ store # Idle
    /\ store.ops < MaxOps
    /\ StoreStep(Called(addToHistory(store)))

\* submitQuestion up to its await; with an empty question it returns at once
SubmitQuestion ==
    /\ store # Idle
    /\ store.ops < MaxOps
    /\ IF store.question = ""
       THEN StoreStep(Called(store))
       ELSE StoreStep(Called(afterSend(store, "query")))

\* fetchWithFilters up to its await
FetchWithFilters ==
    /\ store # Idle
    /\ store.ops < MaxOps
    /\ StoreStep(Called(afterSend(store, "filters")))

\* drillDown({ key, value }) up to the await inside fetchWithFilters
DrillDown ==
    /\ store # Idle
    /\ store.ops < MaxOps
    /\ \E k \in FilterKeys, v \in FilterValues :
          StoreStep(Called(afterSend([store EXCEPT !.filters = withFilter(store.filters, k, v)],
                                     "filters")))

\* request id is no longer in flight; whether it was answered (ok) or failed
\* is recorded
Settled(s, id, ok) ==
    [s EXCEPT !.inflight = s.inflight \ {id}, !.settled = s.settled \cup {<<id, ok>>}]

\* a request settles by a rejection
RequestFails ==
    /\ store # Idle
    /\ \E id \in store.inflight :
          StoreStep(afterFailure(Settled(store, id, FALSE),
                                 IF store.sent[id].kind = "query" THEN sQueryFailed
                                 ELSE sFiltersFailed))

\* a request settles by a 200 answer
RequestAnswered ==
    /\ store # Idle
    /\ \E id \in store.inflight, res \in StoreBodies :
          LET s == Settled(store, id, ~res.isNull)
          IN  StoreStep(IF store.sent[id].kind = "query"
                        THEN afterQueryAnswer(s, id, res)
                        ELSE afterFiltersAnswer(s, id, res))

StoreNext ==
    \/ SetQuestion \/ UpdateFilter \/ SetDatasetRows \/ AddToHistory
    \/ SubmitQuestion \/ FetchWithFilters \/ DrillDown
    \/ RequestFails \/ RequestAnswered

SpecStore == StoreInit /\ [][StoreNext]_vars

----------------------------------------------------------------------------
(* History page: handleDelete (src/unnamed/part_001) and its other version   *)
(* handleDeleteDataset (src/src/pages/History.jsx).  The handler runs up to  *)
(* its await when the delete button of a displayed dataset is clicked, and   *)
(* its catch runs when the request is rejected.  prev is the datasets state  *)
(* of the render the handler belongs to, which is the current state, since   *)
(* the page is rendered again after every state update before the next click.*)

NoId == "undefined"

\* d._id ?? d.dataset_id (part_001), d._id ?? d.dataset_id ?? d.id (History.jsx)
datasetIdOf(version, d) ==
    IF d._id # NoId THEN d._id
    ELSE IF d.dataset_id # NoId THEN d.dataset_id
    ELSE IF version = "History.jsx" THEN d.id
    ELSE NoId

\* s.filter((x) => idOf(x) !== id)
withoutDataset(version, s, id) == SelectSeq(s, LAMBDA x : datasetIdOf(version, x) # id)

\* the catch of the handler: setDatasets(prev)
afterDeleteFailed(version, s, r) == r.prev

----------------------------------------------------------------------------
(* Harness for the optimistic delete: the list loaded is drawn in Init; the  *)
(* user clicks delete on displayed datasets, at most MaxDeletes times, and   *)
(* every request settles at some later step, in any order.                   *)

MaxDeletes == 3

Dataset(a, b, c) == [_id |-> a, dataset_id |-> b, id |-> c]

DatasetPool == <<Dataset("a", NoId, NoId), Dataset(NoId, "b", NoId), Dataset(NoId, NoId, "c")>>

PageVersions == {"part_001", "History.jsx"}

PageInit ==
    /\ RendererOff
    /\ chat = Idle /\ auth = Idle /\ store = Idle
    /\ \E v \in PageVersions, keep \in (SUBSET {1, 2, 3}) \ {{}} :
          LET loaded == SelectSeq(DatasetPool, LAMBDA x : \E i \in keep : DatasetPool[i] = x)
          IN  page = [version |-> v, datasets |-> loaded, original |-> loaded,
                      pending |-> {}, clicks |-> 0,
                      succeeded |-> {}, failed |-> {}, overlapped |-> FALSE]

\* the delete button of a displayed dataset is clicked; window.confirm is
\* answered by ok or by cancel
ClickDelete ==
    /\ page # Idle
    /\ page.clicks < MaxDeletes
    /\ \E i \in 1..Len(page.datasets), ok \in BOOLEAN :
          LET id == datasetIdOf(page.version, page.datasets[i])
          IN  page' =
                IF id = NoId \/ ~ok THEN [page EXCEPT !.clicks = page.clicks + 1]
                ELSE [page EXCEPT
                        !.clicks = page.clicks + 1,
                        !.datasets = withoutDataset(page.version, page.datasets, id),
                        !.pending = page.pending
                                      \cup {[n |-> page.clicks + 1, id |-> id, prev |-> page.datasets]},
                        !.overlapped = page.overlapped \/ page.pending # {}]
    /\ UNCHANGED <<renderer, chat, auth, store>>

\* deleteDataset resolved
DeleteSucceeds ==
    /\ page # Idle
    /\ \E r \in page.pending :
          page' = [page EXCEPT !.pending = page.pending \ {r},
                               !.succeeded = page.succeeded \cup {r.id}]
    /\ UNCHANGED <<renderer, chat, auth, store>>

\* deleteDataset rejected
DeleteFails ==
    /\ page # Idle
    /\ \E r \in page.pending :
          page' = [page EXCEPT !.pending = page.pending \ {r},
                               !.failed = page.failed \cup {r.id},
                               !.datasets = afterDeleteFailed(page.version, page.datasets, r)]
    /\ UNCHANGED <<renderer, chat, auth, store>>

PageNext == ClickDelete \/ DeleteSucceeds \/ DeleteFails

SpecPage == PageInit /\ [][PageNext]_vars

----------------------------------------------------------------------------
(* Claims *)

\* what the numeric-coercion contract calls numeric: an optionally signed
\* decimal literal (digits with at most one decimal point)
IsNumericText(cs) ==
    LET body == IF cs # <<>> /\ Head(cs) \in {"-", "+"} THEN Tail(cs) ELSE cs
        dots == Cardinality({i \in 1..Len(body) : body[i] = "."})
    IN  /\ \A i \in 1..Len(body) : body[i] \in Digits \cup {"."}
        /\ dots <= 1
        /\ Len(body) - dots > 0

Normalized == pc \in {"normalized", "analysed", "rendered"}
Returned   == pc \in {"normalized", "analysed", "rendered", "thrown"}
Analysed   == pc \in {"analysed", "rendered"}

\* the payload the shape tests see (the spec stands in for an absent one)
Payload == effectivePayload(aggregated, spec)

IsNumberOrNull(v) == v.t \in {"num", "null"}

\* C1: normalize never raises; for every payload and every spec (null
\* included) it returns a shape whose kind is rows, table, raw_table,
\* unknown or empty.
C1_NormalizeNeverRaises ==
    Returned => norm.kind \in {"rows", "table", "raw_table", "unknown", "empty"}

\* The six shape tests of the data model, stated on the fields of the payload
C2_IsRowArray(a)  == a.t = "arr"
C2_IsLabels(a)    == /\ Truthy(Get(a, kLabels))
                     /\ (Get(a, kValues).t = "arr" \/ Get(a, kSeries).t = "arr")
C2_IsRawTable(a)  == Get(a, kRawTable).t = "arr"
C2_IsXY(a)        == Get(a, kX).t = "arr" /\ Get(a, kY).t = "arr"
C2_IsWrapper(a)   == Truthy(Get(a, kChartSpec)) /\ Truthy(Get(a, kAggregated))
C2_IsInline(sp)   ==
    /\ Truthy(sp)
    /\ Get(sp, kData).t = "arr"
    /\ \/ /\ \E key \in {kXKey, kX, kLabelKey} : Truthy(Get(sp, key))
          /\ \E key \in {kYKey, kY, kValueKey} : Truthy(Get(sp, key))
          /\ \A key \in {kXKey, kX, kLabelKey, kYKey, kY, kValueKey} :
                IsNullish(Get(sp, key)) \/ Truthy(Get(sp, key))
       \/ /\ \A key \in {kXKey, kX, kLabelKey} : IsNullish(Get(sp, key))
          /\ Len(Get(sp, kData).a) > 0
          /\ Len(OwnKeys(Get(sp, kData).a[1])) >= 2
       \/ /\ \A key \in {kYKey, kY, kValueKey} : IsNullish(Get(sp, key))
          /\ Len(Get(sp, kData).a) > 0
          /\ Len(OwnKeys(Get(sp, kData).a[1])) >= 2

\* the number of shape tests a payload satisfies
C2_Matches(a, sp) ==
    Cardinality({i \in 1..6 :
        \/ i = 1 /\ C2_IsRowArray(a)
        \/ i = 2 /\ C2_IsLabels(a)
        \/ i = 3 /\ C2_IsRawTable(a)
        \/ i = 4 /\ C2_IsXY(a)
        \/ i = 5 /\ C2_IsWrapper(a)
        \/ i = 6 /\ C2_IsInline(sp)})

C2_LabelsOfRows(rows) == [i \in 1..Len(rows) |-> Get(rows[i], kLabel)]
C2_ArrayOr(v) == IF v.t = "arr" THEN v.a ELSE <<>>

C3_CoerceContract ==
    pc = "coerced" =>
        /\ (cIn = Str(<<>>) \/ IsNullish(cIn)) => cOut = Null
        /\ cIn = Str(sThousands) => cOut = Num(12345, 1)
        /\ cIn.t = "num" => cOut = cIn
        /\ (cIn.t = "str" /\ ~IsNumericText(Trim(RemoveCommas(cIn.s))))
              => cOut = Null

\* an element that is an object carrying a label-like and a value-like field
C4_IsLabelValue(r) ==
    /\ r.t = "obj"
    /\ \E key \in {kLabel, kName, kX} : HasKey(r, key)
    /\ \E key \in {kValue, kY} : HasKey(r, key)

\* the label and the value such an element carries: its first non-null
\* label-like / value-like field
C4_LabelOf(r) ==
    IF ~IsNullish(Get(r, kLabel)) THEN Get(r, kLabel)
    ELSE IF ~IsNullish(Get(r, kName)) THEN Get(r, kName)
    ELSE IF ~IsNullish(Get(r, kX)) THEN Get(r, kX) ELSE Null
C4_ValueOf(r) ==
    IF ~IsNullish(Get(r, kValue)) THEN Get(r, kValue)
    ELSE IF ~IsNullish(Get(r, kY)) THEN Get(r, kY) ELSE Null

\* C4: an array payload whose elements are all label/value objects gives
\* kind rows with one row per element, in order, row i carrying the label
\* and value of element i.
C4_RowsPreserved ==
    (Returned /\ aggregated.t = "arr"
        /\ \A i \in 1..Len(aggregated.a) : C4_IsLabelValue(aggregated.a[i])) =>
        /\ norm.kind = "rows"
        /\ Len(norm.rows) = Len(aggregated.a)
        /\ \A i \in 1..Len(aggregated.a) :
              /\ Get(norm.rows[i], kLabel) = C4_LabelOf(aggregated.a[i])
              /\ Get(norm.rows[i], kValue) = C4_ValueOf(aggregated.a[i])

\* a four-element label/value array, one of its values null, was normalised
C4_Witness ==
    /\ Normalized
    /\ aggregated.t = "arr" /\ Len(aggregated.a) = 4
    /\ \A i \in 1..4 : C4_IsLabelValue(aggregated.a[i])
    /\ \E i \in 1..4 : Get(aggregated.a[i], kValue) = Null
    /\ \E i \in 1..4 : Get(aggregated.a[i], kValue) # Null
    /\ Len(norm.rows) = 4

\* the name a series contributes as a column
C5_SeriesName(s, i) ==
    IF s.t = "obj" /\ ~IsNullish(Get(s, kName)) THEN ToStr(Get(s, kName))
    ELSE <<"s","e","r","i","e","s">> \o NatToChars(i)
C5_SeriesValue(s, i) ==
    IF s.t = "obj" /\ Get(s, kValues).t = "arr" THEN At(Get(s, kValues).a, i)
    ELSE Undefined

\* C5: a payload with labels and series (no values array) gives kind table
\* with labels.length rows; the keys of each row are the series names plus
\* label; row i has label = labels[i] and, per series, its coerced i-th
\* value, null past the end of the series' values.
C5_TableShape ==
    (Returned /\ aggregated.t = "obj"
        /\ Get(aggregated, kLabels).t = "arr"
        /\ Get(aggregated, kSeries).t = "arr"
        /\ Get(aggregated, kValues).t # "arr") =>
        LET labels == Get(aggregated, kLabels).a
            series == Get(aggregated, kSeries).a
        IN  /\ norm.kind = "table"
            /\ Len(norm.rows) = Len(labels)
            /\ \A i \in 1..Len(labels) :
                  /\ {norm.rows[i].k[j] : j \in 1..Len(norm.rows[i].k)}
                        = {kLabel} \cup {C5_SeriesName(series[j], j) : j \in 1..Len(series)}
                  /\ Get(norm.rows[i], kLabel) = labels[i]
                  /\ \A j \in 1..Len(series) :
                        Get(norm.rows[i], C5_SeriesName(series[j], j))
                            = safeNumber(C5_SeriesValue(series[j], i))

\* the two fields an inline-data spec names
C6_XField(sp) ==
    IF ~IsNullish(Get(sp, kX)) THEN ToStr(Get(sp, kX))
    ELSE IF ~IsNullish(Get(sp, kXKey)) THEN ToStr(Get(sp, kXKey))
    ELSE OwnKeys(Get(sp, kData).a[1])[1]
C6_YField(sp) ==
    IF ~IsNullish(Get(sp, kY)) THEN ToStr(Get(sp, kY))
    ELSE IF ~IsNullish(Get(sp, kYKey)) THEN ToStr(Get(sp, kYKey))
    ELSE OwnKeys(Get(sp, kData).a[1])[2]
C6_NamesTwoFields(sp) ==
    \/ ~IsNullish(Get(sp, kX)) /\ ~IsNullish(Get(sp, kY))
    \/ ~IsNullish(Get(sp, kXKey)) /\ ~IsNullish(Get(sp, kYKey))
    \/ /\ \A key \in {kX, kY, kXKey, kYKey} : IsNullish(Get(sp, key))
       /\ Len(Get(sp, kData).a) > 0
       /\ Len(OwnKeys(Get(sp, kData).a[1])) >= 2

\* C6: with no payload (null/absent) and a spec carrying inline data (an
\* array of row objects) and naming two fields, the result is kind rows in
\* which row i has label = data[i][xField], value = coerceNumber(data[i][yField]).
C6_InlineDataFallback ==
    (Returned /\ IsNullish(aggregated) /\ spec.t = "obj"
        /\ Get(spec, kData).t = "arr"
        /\ \A i \in 1..Len(Get(spec, kData).a) : Get(spec, kData).a[i].t = "obj"
        /\ C6_NamesTwoFields(spec)) =>
        LET data == Get(spec, kData).a
        IN  /\ norm.kind = "rows"
            /\ Len(norm.rows) = Len(data)
            /\ \A i \in 1..Len(data) :
                  /\ Get(norm.rows[i], kLabel) = Get(data[i], C6_XField(spec))
                  /\ Get(norm.rows[i], kValue) = safeNumber(Get(data[i], C6_YField(spec)))

\* C7: every row of every kind-rows result has a value that is a number or
\* null, whichever shape produced the rows.
C7_RowValuesNumeric ==
    (Returned /\ norm.kind = "rows") =>
        \A i \in 1..Len(norm.rows) : IsNumberOrNull(Get(norm.rows[i], kValue))

\* C8: for every row of a rows result the plotted magnitude and the number
\* the Insight Engine uses agree: a row excluded from the statistics (its
\* value coerces to null) is plotted as 0, an included row is plotted with
\* exactly the number used in the statistics.
C8_PlotAgreesWithStatistics ==
    (pc = "rendered" /\ norm.kind = "rows") =>
        \A i \in 1..Len(norm.rows) :
            LET used == safeNumber(Get(norm.rows[i], kValue))
            IN  plotted[i] = IF used = Null THEN Whole(0) ELSE used

\* C9: computeInsights returns null when the shape is not of kind rows,
\* when it has no rows and when every row's value coerces to null, and a
\* non-null Insight Result in every other case.
C9_NullExactlyWithoutData ==
    Analysed =>
        (insights.isNull <=>
            \/ norm.kind # "rows"
            \/ Len(norm.rows) = 0
            \/ \A i \in 1..Len(norm.rows) :
                  safeNumber(Get(norm.rows[i], kValue)) = Null)

\* a rows shape with rows, every value of which coerces to null, gave null
C9_Witness ==
    /\ Analysed
    /\ norm.kind = "rows" /\ Len(norm.rows) >= 2
    /\ \A i \in 1..Len(norm.rows) : safeNumber(Get(norm.rows[i], kValue)) = Null
    /\ \E i \in 1..Len(norm.rows) : Get(norm.rows[i], kValue) # Null
    /\ insights.isNull

\* the rows of the canonical shape carry exactly the values [5, 5, 5, 5]
C10_FourFives ==
    /\ norm.kind = "rows" /\ Len(norm.rows) = 4
    /\ \A i \in 1..4 : Get(norm.rows[i], kValue) = Whole(5)

\* C10 as stated: for the values [5, 5, 5, 5], std = 0, trend is the string
\* "stable", highIndices and lowIndices are empty, accuracy.level = "low".
C10_Original ==
    (Analysed /\ C10_FourFives) =>
        /\ ~insights.isNull
        /\ StdIsZero(insights)
        /\ insights.trend = "stable"
        /\ insights.highIndices = <<>> /\ insights.lowIndices = <<>>
        /\ insights.accuracy.level = "low"

\* C10 amended: for the values [5, 5, 5, 5], std = 0, trend is the string
\* "relatively stable" (the label of the stable class), highIndices and
\* lowIndices are empty, accuracy.level = "low".
C10_ConstantFour ==
    (Analysed /\ C10_FourFives) =>
        /\ ~insights.isNull
        /\ StdIsZero(insights)
        /\ insights.trend = "relatively stable"
        /\ insights.highIndices = <<>> /\ insights.lowIndices = <<>>
        /\ insights.accuracy.level = "low"
        /\ insights.accuracy.rowsUsed = 4

C10_Witness == Analysed /\ C10_FourFives /\ ~insights.isNull

\* the coerced value of row i of the canonical shape (zero-based position
\* i - 1 in the code)
RowValue(i) == safeNumber(Get(norm.rows[i], kValue))

\* the original positions of the rows whose coerced value is non-null
ValidRows == {i \in 1..Len(norm.rows) : RowValue(i) # Null}

\* an Insight Result was computed
HasInsights == Analysed /\ norm.kind = "rows" /\ ~insights.isNull

\* C11: for every rows input with exactly one valid (non-null) value,
\* whatever the number of null-valued rows around it, the Insight Result
\* has std = 0 and classifies no row as high or low.
C11_SingleValueUnclassified ==
    (Analysed /\ norm.kind = "rows" /\ Cardinality(ValidRows) = 1) =>
        /\ ~insights.isNull
        /\ StdIsZero(insights)
        /\ insights.highIndices = <<>> /\ insights.lowIndices = <<>>

\* one valid value with a null-valued row before it and after it
C11_Witness ==
    /\ HasInsights
    /\ Len(norm.rows) >= 3
    /\ \E i \in 2..(Len(norm.rows) - 1) : ValidRows = {i}
    /\ StdIsZero(insights)

\* the coerced values of the canonical rows, in row order
RowValues == [i \in 1..Len(norm.rows) |-> RowValue(i)]

\* the valid ones among the coerced values raw, in row order, as integers
\* of the common scale 10^-E
ValidScaled(raw, E) ==
    LET ord == InOrder({i \in 1..Len(raw) : raw[i] # Null}, Len(raw))
    IN  [k \in 1..Len(ord) |-> Scaled(raw[ord[k]], E)]

\* the largest number of decimals among the coerced values raw
RawScale(raw) ==
    SeqMax([i \in 1..Len(raw) |-> IF raw[i] = Null THEN 0 ELSE raw[i].d])

\* n^2 (n - 1) times the sample variance of the integers vs of sum sum
DevSqOf(vs, sum) ==
    SeqSum([k \in 1..Len(vs) |-> (Len(vs) * vs[k] - sum) * (Len(vs) * vs[k] - sum)])

\* x > mean + 0.7 std, resp. x < mean - 0.7 std, with std > 0:
\* n (x - mean) = n x - sum and (0.7 n std)^2 = 49 devSq / (100 (n - 1))
C12_High(x, n, sum, dsq) ==
    /\ dsq > 0
    /\ n * x - sum > 0
    /\ 100 * (n - 1) * (n * x - sum) * (n * x - sum) > 49 * dsq
C12_Low(x, n, sum, dsq) ==
    /\ dsq > 0
    /\ n * x - sum < 0
    /\ 100 * (n - 1) * (n * x - sum) * (n * x - sum) > 49 * dsq

\* the set of the elements of a sequence
Elems(xs) == {xs[k] : k \in 1..Len(xs)}

C12_ListsAgree(hi, lo, raw, E, n, sum, dsq) ==
    /\ Elems(hi) = {i \in 1..Len(raw) :
                        raw[i] # Null /\ C12_High(Scaled(raw[i], E), n, sum, dsq)}
    /\ Elems(lo) = {i \in 1..Len(raw) :
                        raw[i] # Null /\ C12_Low(Scaled(raw[i], E), n, sum, dsq)}
    /\ Elems(hi) \cap Elems(lo) = {}
    /\ \A i \in Elems(hi) \cup Elems(lo) : raw[i] # Null
    /\ hi = InOrder(Elems(hi), Len(raw))
    /\ lo = InOrder(Elems(lo), Len(raw))

C12_ListsAgreeOn(hi, lo, raw, vs, E) ==
    C12_ListsAgree(hi, lo, raw, E, Len(vs), SeqSum(vs), DevSqOf(vs, SeqSum(vs)))

\* C12: a row index i is in highIndices iff std > 0 and its coerced value is
\* non-null and greater than mean + 0.7 std, and in lowIndices iff std > 0
\* and its coerced value is non-null and less than mean - 0.7 std; no index
\* is in both lists, null-valued rows are in neither, and the indices are
\* original row positions (listed once each, in row order).
C12_OutlierClassification ==
    HasInsights =>
        C12_ListsAgreeOn(insights.highIndices, insights.lowIndices, RowValues,
                         ValidScaled(RowValues, RawScale(RowValues)), RawScale(RowValues))

\* a null-valued first row, then a low row and a high row: the indices
\* reported are those of the rows, not of the valid values
C12_Witness ==
    /\ HasInsights
    /\ RowValue(1) = Null
    /\ \E i \in 2..Len(norm.rows) : insights.lowIndices = <<i>>
    /\ Len(norm.rows) \in Elems(insights.highIndices)

\* the first row position whose coerced value is the number v (0 if none)
FirstRowWith(raw, v) ==
    IF \E i \in 1..Len(raw) : raw[i] = v
    THEN CHOOSE i \in 1..Len(raw) : raw[i] = v /\ \A j \in 1..(i - 1) : raw[j] # v
    ELSE 0

\* the label the Insight Result carries for a row: the row's label, the
\* empty string standing for a label that is null or absent
C13_RowLabel(r) == IF IsNullish(Get(r, kLabel)) THEN Str(<<>>) ELSE Get(r, kLabel)

C13_ExtremaOf(ins, raw, vs, E) ==
    /\ \A k \in 1..Len(vs) : Scaled(ins.vmin, E) <= vs[k] /\ vs[k] <= Scaled(ins.vmax, E)
    /\ \E k \in 1..Len(vs) : vs[k] = Scaled(ins.vmax, E)
    /\ \E k \in 1..Len(vs) : vs[k] = Scaled(ins.vmin, E)
    /\ FirstRowWith(raw, ins.vmax) # 0 /\ FirstRowWith(raw, ins.vmin) # 0
    /\ ins.highLabel = C13_RowLabel(norm.rows[FirstRowWith(raw, ins.vmax)])
    /\ ins.lowLabel = C13_RowLabel(norm.rows[FirstRowWith(raw, ins.vmin)])

\* C13: the reported maximum and minimum are the extrema over the valid
\* values only, and maxLabel/minLabel are the labels of the first row
\* (lowest original row index, null-valued rows counted in the indexing)
\* whose coerced value equals that extremum; a null-valued row is never
\* chosen.
C13_ExtremaAndLabels ==
    HasInsights =>
        C13_ExtremaOf(insights, RowValues,
                      ValidScaled(RowValues, RawScale(RowValues)), RawScale(RowValues))

\* the maximum occurs twice, after a null-valued first row, and the minimum
\* is negative (below the 0 a null-valued row would count as)
C13_Witness ==
    /\ HasInsights
    /\ Len(norm.rows) = 4
    /\ RowValue(1) = Null
    /\ RowValue(2) = Whole(0 - 2) /\ RowValue(3) = Whole(7) /\ RowValue(4) = Whole(7)
    /\ insights.highLabel = StatLbl(3)
    /\ insights.lowLabel = StatLbl(2)

\* the least-squares slope of the integers vs against the positions
\* 0 .. n-1, as the fraction C14_SlopeNum / C14_SlopeDen (n >= 2):
\* (n SUM x y - SUM x SUM y) / (n SUM x^2 - (SUM x)^2)
C14_SumX(n)   == SeqSum([k \in 1..n |-> k - 1])
C14_SlopeNum(vs) ==
    Len(vs) * SeqSum([k \in 1..Len(vs) |-> (k - 1) * vs[k]]) - C14_SumX(Len(vs)) * SeqSum(vs)
C14_SlopeDen(n) ==
    n * SeqSum([k \in 1..n |-> (k - 1) * (k - 1)]) - C14_SumX(n) * C14_SumX(n)

\* the trend label for slope = num / den (den > 0; num = 0 for a single
\* value) and mean = sum / n: the comparisons slope > 0.01 mean and
\* slope < -0.01 mean, multiplied through by 100 n den
C14_TrendFor(num, den, n, sum) ==
    IF 100 * n * num > sum * den THEN "increasing"
    ELSE IF 100 * n * num < 0 - sum * den THEN "decreasing"
    ELSE "relatively stable"

C14_TrendOfValues(vs) ==
    IF Len(vs) < 2 THEN C14_TrendFor(0, 1, Len(vs), SeqSum(vs))
    ELSE C14_TrendFor(C14_SlopeNum(vs), C14_SlopeDen(Len(vs)), Len(vs), SeqSum(vs))

\* C14: the trend is determined by the least-squares slope of the valid
\* values against their zero-based position among the valid values (null
\* rows skipped, not counted as positions): increasing iff slope >
\* 0.01 mean, decreasing iff slope is not above that threshold and slope <
\* -0.01 mean, and the stable label otherwise; when mean = 0 any nonzero
\* slope yields a directional trend.
C14_TrendBySlope ==
    HasInsights =>
        /\ insights.trend = C14_TrendOfValues(ValidScaled(RowValues, RawScale(RowValues)))
        /\ (insights.sum = 0 /\ insights.slopeNum # 0)
              => insights.trend \in {"increasing", "decreasing"}

\* the valid values, null-valued rows between them, have mean 0 and a
\* negative slope, and the trend is decreasing
C14_Witness ==
    /\ HasInsights
    /\ insights.n >= 2 /\ insights.n < Len(norm.rows)
    /\ \E i \in 2..(Len(norm.rows) - 1) : RowValue(i) = Null
    /\ SeqSum(ValidScaled(RowValues, RawScale(RowValues))) = 0
    /\ C14_SlopeNum(ValidScaled(RowValues, RawScale(RowValues))) < 0
    /\ insights.trend = "decreasing"

\* C15: accuracy.level depends only on n, the number of rows whose coerced
\* value is non-null (null-valued rows are not counted): high iff n >= 10,
\* medium iff 5 <= n < 10, low iff n < 5; accuracy.rowsUsed is that n.
C15_AccuracyByValidCount ==
    HasInsights =>
        /\ insights.accuracy.rowsUsed = Cardinality(ValidRows)
        /\ insights.accuracy.level = "high" <=> Cardinality(ValidRows) >= 10
        /\ insights.accuracy.level = "medium" <=>
              (5 <= Cardinality(ValidRows) /\ Cardinality(ValidRows) < 10)
        /\ insights.accuracy.level = "low" <=> Cardinality(ValidRows) < 5

\* eleven rows of which exactly ten carry a value: high, at the boundary
C15_Witness ==
    /\ HasInsights
    /\ Len(norm.rows) = 11 /\ Cardinality(ValidRows) = 10
    /\ insights.accuracy.level = "high"
    /\ insights.accuracy.rowsUsed = 10

\* the rule of the trend-based recommendation that matches a trend label
C16_TrendRule(trend) ==
    CASE trend = "increasing" -> "trend-increasing"
      [] trend = "decreasing" -> "trend-decreasing"
      [] OTHER -> "trend-stable"

C16_Rules(recs) == [k \in 1..Len(recs) |-> recs[k].rule]

\* C16: every Insight Result carries between 1 and 3 recommendations: the
\* first is the trend-based one matching the reported trend, a high-outlier
\* note is present iff highIndices is non-empty, a low-outlier note iff
\* lowIndices is non-empty, and the high-outlier note precedes the
\* low-outlier note when both are present.
C16_Recommendations ==
    HasInsights =>
        /\ Len(insights.recommendations) \in 1..3
        /\ C16_Rules(insights.recommendations) =
              <<C16_TrendRule(insights.trend)>>
              \o (IF insights.highIndices # <<>> THEN <<"high-outliers">> ELSE <<>>)
              \o (IF insights.lowIndices # <<>> THEN <<"low-outliers">> ELSE <<>>)
        /\ insights.trend \in {"increasing", "decreasing", "relatively stable"}

\* a result with high and low outliers and three recommendations
C16_Witness ==
    /\ HasInsights
    /\ insights.highIndices # <<>> /\ insights.lowIndices # <<>>
    /\ insights.trend = "decreasing"
    /\ C16_Rules(insights.recommendations)
          = <<"trend-decreasing", "high-outliers", "low-outliers">>

\* a wrapper payload: an object of exactly the fields chart_spec and
\* aggregated
C17_IsWrapperPayload(a) == a.t = "obj" /\ Elems(a.k) = {kChartSpec, kAggregated}

C17_OuterSpecs == {Null, Undefined, SpecInner, SpecWithData, Obj(<<>>, <<>>)}

\* C17: normalizing a wrapper {chart_spec, aggregated} against any outer
\* spec gives exactly the canonical shape of normalizing its nested
\* aggregated payload against its nested chart_spec; the outer spec has no
\* influence on the result.
C17_UnwrapEquivalence ==
    (Returned /\ C17_IsWrapperPayload(aggregated)) =>
        /\ norm = normalizeAggregated(Get(aggregated, kAggregated), Get(aggregated, kChartSpec))
        /\ \A outer \in C17_OuterSpecs : normalizeAggregated(aggregated, outer) = norm

\* the part of C17 the code keeps: wrappers whose two fields are both truthy
C17_TruthyWrappersUnwrap ==
    (Returned /\ C17_IsWrapperPayload(aggregated)
        /\ Truthy(Get(aggregated, kChartSpec)) /\ Truthy(Get(aggregated, kAggregated))) =>
        /\ norm = normalizeAggregated(Get(aggregated, kAggregated), Get(aggregated, kChartSpec))
        /\ \A outer \in C17_OuterSpecs : normalizeAggregated(aggregated, outer) = norm

C19_WithType(sp, ty) ==
    LET keep == InOrder({i \in 1..Len(sp.k) : sp.k[i] # kType}, Len(sp.k))
        rest == Obj([i \in 1..Len(keep) |-> sp.k[keep[i]]],
                    [i \in 1..Len(keep) |-> sp.a[keep[i]]])
    IN  IF ty = Undefined THEN rest ELSE SetProp(sp, kType, ty)

C19_Types ==
    {Undefined, Str(<<"b","a","r">>), Str(<<"l","i","n","e">>), Str(<<"p","i","e">>),
     Str(<<"s","c","a","t","t","e","r">>), Str(<<"n","o","n","e">>)}

\* kind and rows/table content of a canonical shape
C19_Content(nm) == <<nm.kind, nm.rows, nm.seriesNames, nm.table>>

\* C19: the canonical shape is independent of the spec's type: for any
\* payload and any two specs that differ only in their type field,
\* normalize returns the same kind and the same rows/table content.
C19_TypeIndependent ==
    (Returned /\ spec.t = "obj") =>
        \A ty \in C19_Types :
            C19_Content(normalizeAggregated(aggregated, C19_WithType(spec, ty)))
                = C19_Content(norm)

\* a spec with a type whose inline data and axis names gave the rows, the
\* payload matching no shape
C19_Witness ==
    /\ Normalized
    /\ spec.t = "obj" /\ HasKey(spec, kType) /\ IsArray(Get(spec, kData))
    /\ aggregated.t = "obj" /\ aggregated.k = <<kFoo>>
    /\ norm.kind = "rows" /\ Len(norm.rows) = Len(Get(spec, kData).a)
    /\ Len(norm.rows) >= 2

\* no aggregation payload was supplied (a falsy one counted as absent)
C20_NoPayload == ~Truthy(aggregated)

\* the spec offers no fallback: it is null or absent, or carries neither
\* inline data nor a nested payload
C20_NoFallback ==
    \/ ~Truthy(spec)
    \/ ~Truthy(Get(spec, kData)) /\ ~Truthy(Get(spec, kAggregated))

\* C20: normalize returns kind empty exactly when no aggregation payload
\* was supplied at all and no fallback shape applies (payload null/absent
\* and the spec null, absent, or carrying no inline data or nested
\* payload), and returns kind unknown only when a payload was actually
\* supplied but matches none of the shapes.
C20_EmptyVersusUnknown ==
    Returned =>
        /\ norm.kind = "empty" <=> (C20_NoPayload /\ C20_NoFallback)
        /\ norm.kind = "unknown" => ~C20_NoPayload

\* the part of C20 the code keeps: empty exactly when neither a payload nor
\* a spec was supplied
C20_EmptyWithoutPayloadAndSpec ==
    Returned => (norm.kind = "empty" <=> (~Truthy(aggregated) /\ ~Truthy(spec)))

\* the axis field a spec gives under one of two names, else the fallback
C21_Axis(sp, key, altKey, fallback) ==
    IF sp.t = "obj" /\ ~IsNullish(Get(sp, key)) THEN Get(sp, key)
    ELSE IF sp.t = "obj" /\ ~IsNullish(Get(sp, altKey)) THEN Get(sp, altKey)
    ELSE fallback

\* the n-th field name of a row object, in insertion order
C21_FieldName(r, n) == IF Len(r.k) >= n THEN Str(r.k[n]) ELSE Undefined

C22_Invalid == chat.question.t # "str" \/ chat.question.s = <<>>

\* a lower-cased message indicates 404 / not found / cannot post / HTML
C22_Indicates(msg) ==
    \E marker \in {<<"4","0","4">>, <<"n","o","t"," ","f","o","u","n","d">>,
                   <<"c","a","n","n","o","t"," ","p","o","s","t">>, <<"h","t","m","l">>} :
        Includes(msg, marker)

C22_PostOutcome == fetchJson(chat.post, chat.timeoutMs)
C22_GetOutcome  == fetchJson(chat.get, chat.timeoutMs)

C22_Finished(post, get) ==
    /\ C22_Invalid =>
          /\ chat.requests = <<>>
          /\ chat.result = Throws(sMustBeString)
    /\ ~C22_Invalid => chat.requests[1] = "POST /chat/respond"
    /\ (\E i \in 1..Len(chat.requests) : chat.requests[i] = "GET /chat/ask") =>
          /\ ~C22_Invalid /\ ~post.ok
          /\ C22_Indicates(ToLowerCase(post.message))
    /\ (~C22_Invalid /\ ~post.ok /\ ~C22_Indicates(ToLowerCase(post.message))) =>
          /\ chat.requests = <<"POST /chat/respond">>
          /\ chat.result = Throws(post.message)
    /\ (~C22_Invalid /\ chat.post.kind = "timeout" /\ chat.timeoutMs = DefaultTimeoutMs) =>
          chat.requests = <<"POST /chat/respond">>
    /\ (Len(chat.requests) = 2 /\ ~get.ok) =>
          /\ ~chat.result.ok
          /\ Includes(chat.result.message, post.message)
          /\ Includes(chat.result.message, get.message)

\* C22: sendQuestion validates before any network call (an empty or
\* non-string question throws and issues no request), then always issues
\* POST /chat/respond first, and issues the GET /chat/ask fallback only after
\* that POST failed with an error whose message indicates 404 / not found /
\* cannot post / an HTML response; for any other POST failure (a timeout
\* abort, say) no GET is issued and the POST error is rethrown; if the GET
\* fails too, the thrown error combines the POST and the GET messages.
C22_PostThenFallback ==
    chat # Idle =>
        /\ chat.requests \in {<<>>, <<"POST /chat/respond">>,
                              <<"POST /chat/respond", "GET /chat/ask">>}
        /\ chat.pc \in {"start", "post"} => chat.requests = <<>>
        /\ chat.pc = "done" => C22_Finished(C22_PostOutcome, C22_GetOutcome)

\* the POST was answered 404, the GET was issued after it and failed as well
C22_Witness ==
    /\ chat # Idle /\ chat.pc = "done"
    /\ chat.post.kind = "json" /\ chat.post.status = 404
    /\ chat.requests = <<"POST /chat/respond", "GET /chat/ask">>
    /\ ~chat.result.ok
    /\ chat.result.message = combinedMessage(C22_PostOutcome.message, C22_GetOutcome.message)

----------------------------------------------------------------------------
(* C23 *)

\* the successful login, Google login and signup events of the log whose
\* user has the key
C23_Successes(log, key) ==
    Cardinality({ i \in 1..Len(log) :
                    /\ log[i].kind # "logout" /\ log[i].ok
                    /\ Truthy(log[i].user) /\ emailKeyOf(log[i].user) = key })

C23_Keys == { emailKeyOf(u) : u \in AuthUsers }

\* the loginCount stored for the key, 0 when nothing is stored for it
C23_StoredCount(raw, key) ==
    IF raw = Null \/ ~HasKey(raw, key) THEN 0 ELSE Get(Get(raw, key), kLoginCount).n

C23_CountsAgree ==
    auth # Idle =>
        \A key \in C23_Keys :
            C23_StoredCount(auth.ls.user_stats, key) = C23_Successes(auth.log, key)

C23_LastEvent == auth'.log[Len(auth'.log)]

\* a failed request leaves the storage as it is; a logout removes the user
\* and token items and leaves user_stats as it is
C23_FailureAndLogout ==
    (auth # Idle /\ auth' # auth) =>
        /\ (C23_LastEvent.kind # "logout" /\ ~C23_LastEvent.ok) => auth'.ls = auth.ls
        /\ C23_LastEvent.kind = "logout" =>
              /\ auth'.ls.user_stats = auth.ls.user_stats
              /\ auth'.ls.user = Null /\ auth'.ls.token = Null

\* C23: over any sequence of logins, signups, failed logins and logouts the
\* loginCount stored in user_stats for a user key is the number of successful
\* login/signup events of that key (one more per success, repeated logins of
\* the same key included); a failed login changes nothing; a logout removes
\* only the user and token items and leaves user_stats untouched.
C23_LoginCountIsSuccesses == [](C23_CountsAgree) /\ [][C23_FailureAndLogout]_vars

\* the same key logged in twice, a failed request and a logout in one run
C23_Witness ==
    /\ auth # Idle
    /\ \E key \in C23_Keys : C23_StoredCount(auth.ls.user_stats, key) = 2
    /\ \E i \in 1..Len(auth.log) : auth.log[i].kind = "logout"

----------------------------------------------------------------------------
(* C24 *)

\* the valid coerced values are all one and the same number
C24_ConstantValues ==
    /\ ValidRows # {}
    /\ \A i \in ValidRows, j \in ValidRows : RowValue(i) = RowValue(j)

\* C24: for every rows input whose valid values are all equal to the same
\* constant (positive, zero or negative) the trend reported is the stable
\* one, never increasing or decreasing.
C24_ConstantIsStable ==
    (HasInsights /\ C24_ConstantValues) => insights.trend = "relatively stable"

\* the same for the constants that are not negative
C24_NonNegativeConstantIsStable ==
    (HasInsights /\ C24_ConstantValues /\ \A i \in ValidRows : RowValue(i).n >= 0)
        => insights.trend = "relatively stable"

\* a negative constant is reported as increasing
C24_NegativeConstantIncreasing ==
    (HasInsights /\ C24_ConstantValues /\ \A i \in ValidRows : RowValue(i).n < 0)
        => insights.trend = "increasing"

----------------------------------------------------------------------------
(* C25 *)

\* C25: loading is true in every state in which at least one submitQuestion
\* or fetchWithFilters request is in flight, overlapping requests included;
\* it is false only when no request is outstanding, and false after every
\* request has settled, by success or by failure.
C25_LoadingWhileInFlight ==
    store # Idle => (store.loading <=> store.inflight # {})

\* the part that holds: with no request outstanding loading is false
C25_NotLoadingWhenSettled ==
    store # Idle => (store.inflight = {} => ~store.loading)

\* a request that no other request overlaps keeps loading true while it is
\* in flight (here: the first request of a run)
C25_LoadingWithoutOverlap ==
    (store # Idle /\ Len(store.sent) = 1 /\ store.inflight # {}) => store.loading

----------------------------------------------------------------------------
(* C26 *)

\* every request sent has settled, and the one sent last was answered
C26_AllSettledLastAnswered ==
    /\ store.inflight = {}
    /\ Len(store.sent) >= 1
    /\ <<Len(store.sent), TRUE>> \in store.settled

\* the charts of the store are those of the request sent last
C26_ChartsOfLatest ==
    \A i \in 1..Len(store.charts) :
        store.charts[i].isNull \/ store.charts[i].req = Len(store.sent)

\* the entry pairs its charts with the question and the filters of the
\* request that the charts were answered to
C26_EntryPaired(e) ==
    \A i \in 1..Len(e.charts) :
        e.charts[i].isNull
        \/ /\ e.question = store.sent[e.charts[i].req].question
           /\ e.filters = store.sent[e.charts[i].req].filters

\* C26: when requests overlap, once all of them have settled the charts are
\* those returned for the request issued last (an earlier request's late
\* answer does not overwrite them), and every history entry pairs its charts
\* with the question and filters of the request that produced them.
C26_LatestRequestWins ==
    store # Idle =>
        /\ C26_AllSettledLastAnswered => C26_ChartsOfLatest
        /\ \A k \in 1..Len(store.history) : C26_EntryPaired(store.history[k])

\* the first conjunct alone, and the second alone
C26_ChartsPart ==
    (store # Idle /\ C26_AllSettledLastAnswered) => C26_ChartsOfLatest

C26_HistoryPart ==
    store # Idle => \A k \in 1..Len(store.history) : C26_EntryPaired(store.history[k])

\* one request on its own, with no edit while it is pending (the run is
\* setQuestion, submitQuestion and the answer): the charts are its charts
\* and the entry made is paired with it
C26_PairedWhenAlone ==
    (store # Idle /\ store.ops = 2 /\ Len(store.sent) = 1
        /\ store.sent[1].kind = "query" /\ <<1, TRUE>> \in store.settled)
    => /\ C26_ChartsOfLatest
       /\ \A k \in 1..Len(store.history) : C26_EntryPaired(store.history[k])

----------------------------------------------------------------------------
(* C27 *)

\* the original list without the datasets whose delete request succeeded
C27_Expected ==
    SelectSeq(page.original,
              LAMBDA x : datasetIdOf(page.version, x) \notin page.succeeded)

\* C27: for any interleaving of overlapping delete requests, once every
\* pending delete has resolved the list displayed is the original list minus
\* exactly the datasets whose delete succeeded: a dataset whose delete failed
\* is restored, and one whose delete succeeded never reappears through the
\* rollback of another delete.
C27_ListAfterDeletes ==
    (page # Idle /\ page.pending = {}) => page.datasets = C27_Expected

\* the same for runs in which no delete was started while another was pending
C27_ListAfterSequentialDeletes ==
    (page # Idle /\ page.pending = {} /\ ~page.overlapped) => page.datasets = C27_Expected

----------------------------------------------------------------------------
(* C28 *)

C28_HasNull(charts) == \E i \in 1..Len(charts) : charts[i].isNull

\* C28: every element of the charts array is a chart object and never null,
\* after any submitQuestion, one answered with a chart_spec while no dataset
\* rows are loaded included.
C28_NoNullChart ==
    store # Idle => ~C28_HasNull(store.charts)

\* a null enters the charts only while no dataset rows are loaded
C28_NullOnlyWithoutRows ==
    [][(store # Idle /\ C28_HasNull(store'.charts) /\ ~C28_HasNull(store.charts))
          => store.datasetRows = RowsNull]_vars

----------------------------------------------------------------------------
(* C29 *)

\* the step is the failure of request id
C29_FailureOf(id) == <<id, FALSE>> \in store'.settled /\ <<id, FALSE>> \notin store.settled

C29_MessagesOf(kind) ==
    IF kind = "query" THEN {sQueryFailed, sChartsOfNull} ELSE {sFiltersFailed, sChartsOfNull}

C29_ResultsKept ==
    /\ store'.charts = store.charts /\ store'.history = store.history
    /\ store'.question = store.question /\ store'.filters = store.filters

C29_Step ==
    store # Idle =>
        /\ \A id \in store.inflight :
              C29_FailureOf(id) =>
                 /\ store'.error \in C29_MessagesOf(store.sent[id].kind)
                 /\ C29_ResultsKept
        /\ (SubmitQuestion \/ FetchWithFilters) => C29_ResultsKept
        /\ Len(store'.sent) > Len(store.sent) => store'.error = NoError
        /\ (SubmitQuestion /\ store.question = "") =>
              /\ store' = [store EXCEPT !.ops = store.ops + 1]
              /\ store'.sent = store.sent /\ store'.inflight = store.inflight

\* C29: a failed submitQuestion or fetchWithFilters request sets error to
\* the failure message and leaves charts, history, question and filters as
\* they were before the call; starting a new request resets error to null;
\* submitQuestion with an empty question changes no store field and sends no
\* request.
C29_FailureKeepsResults == [][C29_Step]_vars

\* a request failed while the store held charts and a history entry, and
\* the error is set
C29_Witness ==
    /\ store # Idle
    /\ \E id \in 1..Len(store.sent) : <<id, FALSE>> \in store.settled
    /\ store.error # NoError
    /\ store.charts # <<>> /\ store.history # <<>>

----------------------------------------------------------------------------
(* C30 *)

\* the entry addToHistory makes of the store's current question, filters
\* and charts
C30_IsEntryOf(e, s) ==
    e.question = s.question /\ e.filters = s.filters /\ e.charts = s.charts

\* the old entries are the tail of the new history, unchanged and in order
C30_GrownByOne ==
    /\ Len(store'.history) = Len(store.history) + 1
    /\ Tail(store'.history) = store.history

C30_Step ==
    store # Idle =>
        /\ store'.history = store.history \/ C30_GrownByOne
        /\ AddToHistory =>
              IF store.charts = <<>> THEN store'.history = store.history
              ELSE C30_GrownByOne /\ C30_IsEntryOf(Head(store'.history), store)
        /\ C30_GrownByOne => C30_IsEntryOf(Head(store'.history), store')

C30_NoEmptyEntry ==
    store # Idle => \A k \in 1..Len(store.history) : store.history[k].charts # <<>>

\* C30: the history only grows and keeps newest-first order: addToHistory
\* prepends exactly one entry holding the current question, filters and
\* charts when charts is non-empty and changes nothing when it is empty, so
\* no entry has an empty charts list, and no store operation removes,
\* reorders or modifies existing entries.
C30_HistoryOnlyGrows == [](C30_NoEmptyEntry) /\ [][C30_Step]_vars

\* two entries, the one of the later answer first, the answers being those
\* of a query and of a later filter request
C30_Witness ==
    /\ store # Idle
    /\ Len(store.history) = 2
    /\ store.history[1].charts = <<ServerChart(2)>>
    /\ store.history[2].charts = <<ServerChart(1)>>
    /\ store.sent[1].kind = "query" /\ store.sent[2].kind = "filters"

====
